---- MODULE Spec2Model ----
(***************************************************************************)
(* Model of the dev-agent convergence loop (src/dev_agent.py, main) and    *)
(* of the state it shares with its collaborators: the persisted metrics    *)
(* file (src/agent_lib/metrics.py) and the calls it makes on the test      *)
(* runner, the patch generator and the git tool.                           *)
(*                                                                         *)
(* The components main calls have specifications of their own, each over   *)
(* its own variables: run_tests (SpecRunner), generate_patch and           *)
(* generate_patch_with_retry (SpecGenerator), apply_diff_to_source         *)
(* (SpecApplier) and the computation of the branch name (SpecNaming).      *)
(*                                                                         *)
(* Strings that the code inspects character by character (test names,     *)
(* branch names, commit messages) are sequences of one-character strings.  *)
(* Strings the code only passes around (file paths, diffs, backend names)  *)
(* are TLA+ strings.                                                       *)
(***************************************************************************)
EXTENDS Integers, Sequences, FiniteSets, TLC

\* ------------------------------------------------------------------ bounds
\* Largest max_iterations value a configuration carries in the model.
MaxIterations == 3

\* Number of consecutive invocations of main (the supervisor starts one
\* dev-agent process per subtask attempt).
MaxInvocations == 2

\* --------------------------------------------------------------- variables
VARIABLES
    config_file,           \* what _load_config() yields in this environment
    invocation,            \* 1-based number of the current invocation of main
    pc,                    \* position of main: the next external call
    iteration,             \* loop variable of `for iteration in range(...)`
    current_failure,       \* Optional[TestFailure]: <<>> is None, <<f>> is f
    patch_result,          \* diff_content of the PatchResult in hand
    branch_name,           \* branch name computed for this iteration
    now,                   \* logical clock, advances at each external call
    start_time,            \* time.time() at entry of main
    iteration_start_time,  \* time.time() at the top of the iteration
    metrics,               \* DevAgentMetrics.patch_results of this process
    metrics_file,          \* content of the persisted metrics JSON file
    log,                   \* calls made by this invocation, in order
    exit_code,             \* argument of sys.exit, -1 while none was made
    escaped,               \* name of the exception that left main, or "none"
    outcome,               \* RUNNING / CONVERGED / EXHAUSTED / ABORTED + reason
    previous               \* how the previous invocation of main ended

\* State of one call of run_tests (agent_lib/test_runner.py).
VARIABLES
    command,               \* the command argument, as a list of words
    repo_files,            \* the *.py files under repo_path, in rglob order
    process,               \* what subprocess.run does with the command
    rt_pc,                 \* position of run_tests
    spawned,               \* the token lists handed to subprocess.run
    bytecode,              \* the *.pyc files under repo_path
    test_result            \* the TestResult returned, <<>> while none is

\* State of one call of LLMPatchGenerator.generate_patch or
\* generate_patch_with_retry (agent_lib/llm_patch_generator.py).
VARIABLES
    gen_entry,             \* the method that was called
    max_retries,           \* the max_retries argument
    test_failure,          \* the test_failure argument
    source_file,           \* what reading repo_path / file_path gives
    gen_pc,                \* position of the call
    attempt,               \* loop variable of `for attempt in range(...)`
    original_prompt,       \* the local of that name, <<"None">> while None
    llm_calls,             \* the calls of _call_llm, in order
    patch                  \* what the call returned or raised

\* State of one call of apply_diff_to_source
\* (agent_lib/llm_patch_generator.py).
VARIABLES
    original_source,       \* the original_source argument
    diff_content,          \* the diff_content argument
    edit,                  \* the edit diff_content was computed from
    ap_pc,                 \* position of the call
    modified_source        \* what the call returned or raised

\* State of one computation of the branch name (dev_agent.py, lines 375-383).
VARIABLES
    naming,                \* branch prefix, test name, loop iteration, the
                           \* attempt of the supervisor and the test each
                           \* branch was created for
    created_branch         \* the argument of create_branch, <<>> before

\* State of one call of Supervisor.run (supervisor/supervisor.py).
VARIABLES
    story,                 \* the story argument
    dry_run,               \* the dry_run argument
    sup_max_retries,       \* self.max_retries
    sup_pc,                \* position of run
    subtasks,              \* the list StoryParser.parse returned
    subtask_num,           \* 1-based number of the subtask in execution
    sup_attempt,           \* loop variable of `for attempt in range(...)`
    dev_agent_result,      \* what the last subprocess.run returned
    invocations,           \* the dev_agent.py processes started, in order
    emitted,               \* the plan printed to stdout, <<>> while none is
    approval,              \* the last approval check generated
    run_code               \* what run returned, -1 while it has not

\* State of one call of run_autogen_loop (agent_loop.py).
VARIABLES
    autogen,               \* position, locals and return value of the call
    sent                   \* the arguments of send_message, in order

mainVars == <<config_file, invocation, pc, iteration, current_failure,
              patch_result, branch_name, now, start_time, iteration_start_time,
              metrics, metrics_file, log, exit_code, escaped, outcome, previous>>

runnerVars == <<command, repo_files, process, rt_pc, spawned, bytecode,
               test_result>>

generatorVars == <<gen_entry, max_retries, test_failure, source_file, gen_pc,
                   attempt, original_prompt, llm_calls, patch>>

applierVars == <<original_source, diff_content, edit, ap_pc, modified_source>>

namingVars == <<naming, created_branch>>

supervisorVars == <<story, dry_run, sup_max_retries, sup_pc, subtasks,
                    subtask_num, sup_attempt, dev_agent_result, invocations,
                    emitted, approval, run_code>>

autogenVars == <<autogen, sent>>

\* The variables of the components main calls.
componentVars == <<runnerVars, generatorVars, applierVars, namingVars,
                   supervisorVars, autogenVars>>

\* What a call of run_tests leaves alone.
notRunnerVars == <<mainVars, generatorVars, applierVars, namingVars,
                    supervisorVars, autogenVars>>

\* What a call of the patch generator leaves alone.
notGeneratorVars == <<mainVars, runnerVars, applierVars, namingVars,
                    supervisorVars, autogenVars>>

\* What a call of apply_diff_to_source leaves alone.
notApplierVars == <<mainVars, runnerVars, generatorVars, namingVars,
                    supervisorVars, autogenVars>>

\* What the computation of the branch name leaves alone.
notNamingVars == <<mainVars, runnerVars, generatorVars, applierVars,
                    supervisorVars, autogenVars>>

\* What a call of Supervisor.run leaves alone.
notSupervisorVars == <<mainVars, runnerVars, generatorVars, applierVars,
                       namingVars, autogenVars>>

\* What a call of run_autogen_loop leaves alone.
notAutogenVars == <<mainVars, runnerVars, generatorVars, applierVars,
                    namingVars, supervisorVars>>

vars == <<mainVars, componentVars>>

\* ------------------------------------------------------------ string data
DISCOVERY_ERROR == <<"d","i","s","c","o","v","e","r","y","_","e","r","r","o","r">>
UNKNOWN_FAILURE == <<"u","n","k","n","o","w","n","_","f","a","i","l","u","r","e">>
COMMIT_PREFIX == <<"T","D","D",":"," ","f","i","x"," ">>
PR_TITLE_PREFIX == <<"F","i","x"," ">>

\* Test names and error texts the test runner reports in the model.
NameExample == <<"t","_","e","x">>
NameInClass == <<"C",":",":","t","_","m">>
ErrAssert == <<"a","s","s","e","r","t">>
ErrSyntax == <<"S","y","n","t","a","x","E","r","r","o","r",":"," ","x">>

\* Diffs the patch generator returns in the model.
Diffs == {"diff_a"}

\* Branch prefixes a configuration carries in the model.
PrefixDevAgent == <<"d","e","v","-","a","g","e","n","t","/","f","i","x">>
PrefixShort == <<"f","i","x">>

\* ------------------------------------------------------ pure string helpers
Digit(d) ==
    CASE d = 0 -> "0" [] d = 1 -> "1" [] d = 2 -> "2" [] d = 3 -> "3"
      [] d = 4 -> "4" [] d = 5 -> "5" [] d = 6 -> "6" [] d = 7 -> "7"
      [] d = 8 -> "8" [] d = 9 -> "9"

RECURSIVE IntToStr(_)
\* str(n) for n >= 0, as used by the f-string of the branch suffix.
IntToStr(n) ==
    IF n < 10 THEN <<Digit(n)>>
    ELSE IntToStr(n \div 10) \o <<Digit(n % 10)>>

\* Index of the first occurrence of c in s, 0 when there is none.
FirstIndex(s, c) ==
    IF \E i \in 1..Len(s) : s[i] = c
    THEN CHOOSE i \in 1..Len(s) : s[i] = c /\ \A j \in 1..(i-1) : s[j] # c
    ELSE 0

\* sub occurs in s as a contiguous substring.
Contains(s, sub) ==
    \E k \in 0..(Len(s) - Len(sub)) : SubSeq(s, k + 1, k + Len(sub)) = sub

RECURSIVE SubDoubleColon(_)
\* re.sub(r"::", "-", s): leftmost non-overlapping matches.
SubDoubleColon(s) ==
    IF Len(s) = 0 THEN <<>>
    ELSE IF Len(s) >= 2 /\ s[1] = ":" /\ s[2] = ":"
         THEN <<"-">> \o SubDoubleColon(SubSeq(s, 3, Len(s)))
         ELSE <<s[1]>> \o SubDoubleColon(Tail(s))

\* ReplaceChar that replaces nothing.
KeepChar(s, c) == s

\* s.replace(c, "-") for a one-character c.
ReplaceChar(s, c) == [i \in 1..Len(s) |-> IF s[i] = c THEN "-" ELSE s[i]]

_sanitize_branch_name(name) ==
    LET k == FirstIndex(name, "_") IN
    IF k = 0 THEN name
    ELSE LET prefix == SubSeq(name, 1, k - 1)
             rest0 == SubSeq(name, k + 1, Len(name))
             rest1 == SubDoubleColon(rest0)
             rest2 == ReplaceChar(rest1, ":")
             rest3 == ReplaceChar(rest2, " ")
         IN prefix \o <<"_">> \o rest3

\* ------------------------------------------------------------ test results
TestFailure(n, f, e) == [test_name |-> n, file_path |-> f, error_output |-> e]

FailExample == TestFailure(NameExample, "example.py", ErrAssert)
FailInClass == TestFailure(NameInClass, "tests/test_mod.py", ErrAssert)
FailSyntax == TestFailure(ErrSyntax, "broken.py", ErrSyntax)

TestResult(p, fs) == [passed |-> p, failures |-> fs]

\* The values run_tests (agent_lib/test_runner.py) returns: passed; a command
\* that timed out or was not found (not passed, no failures); a discovery
\* or syntax error (one failure whose test_name is its error text); parsed
\* FAILED markers.
RunTestsResults ==
    { TestResult(TRUE, <<>>),
      TestResult(FALSE, <<>>),
      TestResult(FALSE, <<FailSyntax>>),
      TestResult(FALSE, <<FailExample>>),
      TestResult(FALSE, <<FailInClass, FailExample>>) }

\* TestRunner.run_tests: the dict main sees.  status is "none" when the
\* key is absent.
TestRunner_run_tests(result) ==
    IF /\ ~result.passed
       /\ Len(result.failures) = 1
       /\ result.failures[1].test_name = result.failures[1].error_output
    THEN [status |-> "discovery_error",
          file_path |-> result.failures[1].file_path,
          error |-> result.failures[1].error_output,
          passed |-> result.passed,
          failures |-> result.failures]
    ELSE [status |-> "none", file_path |-> "", error |-> <<>>,
          passed |-> result.passed,
          failures |-> result.failures]

\* ------------------------------------------------------------ configuration
Config(n, prefix, autopr) ==
    [raises |-> FALSE, max_iterations |-> n, branch_prefix |-> prefix,
     auto_pr |-> autopr, llm_backend |-> "llama-cpp",
     model_name |-> "codellama"]

\* auto_pr is "true", "false" or "absent" (the key is missing).
ConfigFiles ==
    { Config(n, PrefixDevAgent, "true") : n \in 1..MaxIterations }
    \cup { Config(n, PrefixShort, a) : n \in {1}, a \in {"false", "absent"} }
    \cup { [Config(1, PrefixShort, "absent") EXCEPT !.raises = TRUE] }

\* config["git"].get("auto_pr", False)
auto_pr_enabled == config_file.auto_pr = "true"

max_iterations == config_file.max_iterations

\* ------------------------------------------------------------------ metrics
PatchMetrics(n, its, ok, dur) ==
    [test_name |-> n, llm_backend |-> config_file.llm_backend,
     model_name |-> config_file.model_name, iterations |-> its,
     success |-> ok, duration_ms |-> dur]

\* DevAgentMetrics.add_patch_result
add_patch_result(m, r) == Append(m, r)

\* MetricsStorage.save_metrics: the file is rewritten with the serialised
\* in-memory list.
save_metrics(file, m) == m

\* ---------------------------------------------------------------- call log
\* One entry per call main makes on a collaborator: the operation, the
\* source line of the call site, the argument, the result and the loop
\* iteration in which it was made.
Call(op, line, arg, res) ==
    [op |-> op, line |-> line, arg |-> arg, res |-> res, iter |-> iteration]

\* ------------------------------------------------------------- termination
\* main leaves through sys.exit(code) (escaped = "none") or through an
\* exception nobody catches (code = -1).  state/reason name the exit site.
Finish(code, exc, state, reason) ==
    /\ pc' = "done"
    /\ exit_code' = code
    /\ escaped' = exc
    /\ outcome' = [state |-> state, reason |-> reason]
    /\ UNCHANGED previous

\* Uncaught as if main caught the exception and exited like a patch failure.
CaughtAsPatchFailure(exc) == [exit_code |-> 2, escaped |-> "none"]

\* An exception raised where no except clause encloses the call (lines 363
\* and 372) leaves main: no sys.exit is made.
Uncaught(exc) == [exit_code |-> -1, escaped |-> exc]

Escape(exc, state, reason) ==
    Finish(Uncaught(exc).exit_code, Uncaught(exc).escaped, state, reason)

StillRunning == UNCHANGED <<exit_code, escaped, outcome, previous>>

\* LoopContinues with an off-by-one bound.
LoopContinuesInclusive(i, n) == i <= n

\* `for iteration in range(max_iterations)`: the body runs for i when
LoopContinues(i, n) == i < n

\* Lines 439-465: the loop ran out.  t is the value of time.time() there.
RecordExhausted(cf, t, lg) ==
    LET test_name == IF cf # <<>> THEN cf[1].test_name ELSE UNKNOWN_FAILURE
        pm == PatchMetrics(test_name, max_iterations, FALSE, t - start_time)
        m2 == add_patch_result(metrics, pm)
    IN /\ metrics' = m2
       /\ metrics_file' = save_metrics(metrics_file, m2)
       /\ log' = Append(lg, Call("save_metrics", 459, m2, "None"))
       /\ Finish(1, "none", "EXHAUSTED", "max_iterations")

\* ------------------------------------------------------------------- main
\* Lines 316-338: set-up and configuration load.
MainStart ==
    /\ UNCHANGED componentVars
    /\ pc = "start"
    /\ start_time' = now
    /\ current_failure' = <<>>
    /\ UNCHANGED <<config_file, invocation, patch_result, branch_name, now,
                   iteration_start_time>>
    /\ IF config_file.raises
       THEN /\ Finish(1, "none", "ABORTED", "config_error")
            /\ metrics' = <<>>
            /\ UNCHANGED <<iteration, metrics_file, log>>
       ELSE /\ iteration' = 0
            /\ IF LoopContinues(0, max_iterations)
               THEN /\ pc' = "run_tests"
                    /\ metrics' = <<>>
                    /\ StillRunning
                    /\ UNCHANGED <<metrics_file, log>>
               ELSE RecordExhausted(<<>>, now, log)

\* StartBranch with the empty-failures test placed before the passed test.
StartBranchEmptyFirst(tr) ==
    IF tr.status = "discovery_error" THEN "discovery"
    ELSE IF tr.failures = <<>> THEN "no_failures"
    ELSE IF tr.passed THEN "passed"
    ELSE "failure"

\* Which arm of the if/elif chain of lines 351-371 a test result takes.
StartBranch(tr) ==
    IF tr.status = "discovery_error" THEN "discovery"
    ELSE IF tr.passed THEN "passed"
    ELSE IF tr.failures = <<>> THEN "no_failures"
    ELSE "failure"

\* DiscoveryFailure that drops what the test run reported.
DiscoveryFailureBare(tr) == TestFailure(DISCOVERY_ERROR, "", <<>>)

\* Lines 353-357: the failure handed to the generator for a discovery error.
DiscoveryFailure(tr) == TestFailure(DISCOVERY_ERROR, tr.file_path, tr.error)

\* Lines 342-371: the test run at the top of an iteration.
RunTests ==
    /\ UNCHANGED componentVars
    /\ pc = "run_tests"
    /\ iteration_start_time' = now
    /\ now' = now + 1
    /\ \E r \in RunTestsResults :
         LET tr == TestRunner_run_tests(r)
             arm == StartBranch(tr)
         IN /\ log' = Append(log, Call("run_tests", 346, "test_command", tr))
            /\ CASE arm = "discovery" ->
                    /\ current_failure' = <<DiscoveryFailure(tr)>>
                    /\ pc' = "generate"
                    /\ StillRunning
                 [] arm = "passed" ->
                    /\ Finish(0, "none", "CONVERGED", "tests_pass")
                    /\ UNCHANGED current_failure
                 [] arm = "no_failures" ->
                    /\ Escape("NoTestsFoundError", "ABORTED", "no_failures")
                    /\ UNCHANGED current_failure
                 [] arm = "failure" ->
                    /\ current_failure' =
                         <<TestFailure(tr.failures[1].test_name,
                                       tr.failures[1].file_path,
                                       tr.failures[1].error_output)>>
                    /\ pc' = "generate"
                    /\ StillRunning
    /\ UNCHANGED <<config_file, invocation, iteration, patch_result,
                   branch_name, start_time, metrics, metrics_file>>

\* BranchNameFor that suffixes the iteration number from iteration 0 on.
BranchNameAlwaysSuffixed(prefix, test_name, it) ==
    _sanitize_branch_name(prefix \o <<"_">> \o test_name)
        \o <<"_">> \o IntToStr(it + 1)

\* Lines 375-381: the branch name of this iteration.
BranchNameFor(prefix, test_name, it) ==
    LET b == _sanitize_branch_name(prefix \o <<"_">> \o test_name)
    IN IF it > 0 THEN b \o <<"_">> \o IntToStr(it + 1) ELSE b

\* Lines 372-381: patch generation, then the branch name.
GeneratePatch ==
    /\ UNCHANGED componentVars
    /\ pc = "generate"
    /\ now' = now + 1
    /\ \E out \in Diffs \cup {"PatchGenerationError"} :
         /\ log' = Append(log, Call("generate_patch", 372, current_failure[1], out))
         /\ IF out = "PatchGenerationError"
            THEN /\ Escape("PatchGenerationError", "ABORTED", "generation_failed")
                 /\ UNCHANGED <<patch_result, branch_name>>
            ELSE /\ patch_result' = out
                 /\ branch_name' = BranchNameFor(config_file.branch_prefix,
                                                 current_failure[1].test_name,
                                                 iteration)
                 /\ pc' = "create_branch"
                 /\ StillRunning
    /\ UNCHANGED <<config_file, invocation, iteration, current_failure,
                   start_time, iteration_start_time, metrics, metrics_file>>

\* Exit code of line 384.
BranchFailureExit == 2

\* Lines 383-384.
CreateBranch ==
    /\ UNCHANGED componentVars
    /\ pc = "create_branch"
    /\ now' = now + 1
    /\ \E ok \in {"True", "False"} :
         /\ log' = Append(log, Call("create_branch", 383, branch_name, ok))
         /\ IF ok = "False"
            THEN Finish(BranchFailureExit, "none", "ABORTED", "branch_creation_failed")
            ELSE pc' = "validate" /\ StillRunning
    /\ UNCHANGED <<config_file, invocation, iteration, current_failure,
                   patch_result, branch_name, start_time, iteration_start_time,
                   metrics, metrics_file>>

\* ValidationAccepts that does not look at the result.
ValidationIgnored(ok) == TRUE

\* Line 388: main goes on to apply_patch iff validate_patch returned True.
ValidationAccepts(ok) == ok = "True"

\* Lines 388-391.
ValidatePatch ==
    /\ UNCHANGED componentVars
    /\ pc = "validate"
    /\ now' = now + 1
    /\ \E ok \in {"True", "False"} :
         /\ log' = Append(log, Call("validate_patch", 388, patch_result, ok))
         /\ IF ValidationAccepts(ok)
            THEN pc' = "apply" /\ StillRunning
            ELSE Finish(2, "none", "ABORTED", "patch_validation_failed")
    /\ UNCHANGED <<config_file, invocation, iteration, current_failure,
                   patch_result, branch_name, start_time, iteration_start_time,
                   metrics, metrics_file>>

\* GitTool.apply_patch: `git apply --check` failing or `git apply` failing
\* raises PatchApplicationError, otherwise True is returned.
GitTool_apply_patch(git) ==
    IF git = "check_failed" THEN "PatchApplicationError"
    ELSE IF git = "apply_failed" THEN "PatchApplicationError"
    ELSE "True"

\* Lines 394-395 and 436-437.
ApplyPatch ==
    /\ UNCHANGED componentVars
    /\ pc = "apply"
    /\ now' = now + 1
    /\ \E git \in {"ok", "check_failed", "apply_failed"} :
         LET res == GitTool_apply_patch(git)
         IN /\ log' = Append(log, Call("apply_patch", 394, patch_result, res))
            /\ IF res = "True"
               THEN pc' = "commit" /\ StillRunning
               ELSE Finish(2, "none", "ABORTED", "patch_application_failed")
    /\ UNCHANGED <<config_file, invocation, iteration, current_failure,
                   patch_result, branch_name, start_time, iteration_start_time,
                   metrics, metrics_file>>

\* Lines 396-397: the result of commit is not looked at.
Commit ==
    /\ UNCHANGED componentVars
    /\ pc = "commit"
    /\ now' = now + 1
    /\ \E ok \in {"True", "False"} :
         log' = Append(log, Call("commit", 397,
                                 COMMIT_PREFIX \o current_failure[1].test_name, ok))
    /\ pc' = "retest"
    /\ StillRunning
    /\ UNCHANGED <<config_file, invocation, iteration, current_failure,
                   patch_result, branch_name, start_time, iteration_start_time,
                   metrics, metrics_file>>

\* FallThrough with a checkout of the base branch on the way.
FallThroughCheckout(lg) == Append(lg, Call("checkout", 401, "main", "True"))

\* Lines 401 and 340: a failing retest falls through to the next turn of
\* the for loop; main calls no collaborator on the way.
FallThrough(lg) == lg

\* RetestAllowsPush that does not look at the retest.
RetestAlwaysPushes(tr) == TRUE

\* Line 401: push is reached iff the retest passed.
RetestAllowsPush(tr) == tr.passed

\* Lines 400-418, and the loop increment with lines 439-465 behind it.
Retest ==
    /\ UNCHANGED componentVars
    /\ pc = "retest"
    /\ now' = now + 1
    /\ \E r \in RunTestsResults :
         LET tr == TestRunner_run_tests(r)
             lg == Append(log, Call("run_tests", 400, "test_command",
                                    [passed |-> tr.passed]))
         IN IF RetestAllowsPush(tr)
            THEN LET pm == PatchMetrics(current_failure[1].test_name,
                                        iteration + 1, TRUE,
                                        now' - iteration_start_time)
                     m2 == add_patch_result(metrics, pm)
                 IN /\ metrics' = m2
                    /\ metrics_file' = save_metrics(metrics_file, m2)
                    /\ log' = Append(lg, Call("save_metrics", 414, m2, "None"))
                    /\ pc' = "push"
                    /\ StillRunning
                    /\ UNCHANGED iteration
            ELSE /\ iteration' = iteration + 1
                 /\ IF LoopContinues(iteration + 1, max_iterations)
                    THEN /\ pc' = "run_tests"
                         /\ log' = FallThrough(lg)
                         /\ StillRunning
                         /\ UNCHANGED <<metrics, metrics_file>>
                    ELSE RecordExhausted(current_failure, now', lg)
    /\ UNCHANGED <<config_file, invocation, current_failure, patch_result,
                   branch_name, start_time, iteration_start_time>>

\* OpensPR that does not look at the result of push.
OpensPRWithoutPush(pushed) == auto_pr_enabled

\* Lines 421-423: a PR is opened iff push returned True and auto_pr is on.
OpensPR(pushed) == pushed = "True" /\ auto_pr_enabled

\* Lines 421-435.
Push ==
    /\ UNCHANGED componentVars
    /\ pc = "push"
    /\ now' = now + 1
    /\ \E ok \in {"True", "False"} :
         /\ log' = Append(log, Call("push", 421, "", ok))
         /\ IF OpensPR(ok)
            THEN pc' = "open_pr" /\ StillRunning
            ELSE Finish(0, "none", "CONVERGED", "fixed")
    /\ UNCHANGED <<config_file, invocation, iteration, current_failure,
                   patch_result, branch_name, start_time, iteration_start_time,
                   metrics, metrics_file>>

\* Lines 424-435: the result of open_pr is not looked at.
OpenPR ==
    /\ UNCHANGED componentVars
    /\ pc = "open_pr"
    /\ now' = now + 1
    /\ \E ok \in {"True", "False"} :
         log' = Append(log, Call("open_pr", 433,
                   [title |-> PR_TITLE_PREFIX \o current_failure[1].test_name,
                    iterations |-> iteration + 1,
                    llm_backend |-> config_file.llm_backend,
                    model_name |-> config_file.model_name], ok))
    /\ Finish(0, "none", "CONVERGED", "fixed")
    /\ UNCHANGED <<config_file, invocation, iteration, current_failure,
                   patch_result, branch_name, start_time, iteration_start_time,
                   metrics, metrics_file>>

\* supervisor.py, _execute_subtask: a new dev-agent process is started for
\* the next attempt or subtask.  Process state starts afresh; the metrics
\* file stays.  The clock restarts because only differences are observed.
Restart ==
    /\ UNCHANGED componentVars
    /\ pc = "done"
    /\ invocation < MaxInvocations
    /\ invocation' = invocation + 1
    /\ pc' = "start"
    /\ iteration' = 0
    /\ current_failure' = <<>>
    /\ patch_result' = ""
    /\ branch_name' = <<>>
    /\ now' = 0
    /\ start_time' = 0
    /\ iteration_start_time' = 0
    /\ metrics' = <<>>
    /\ log' = <<>>
    /\ exit_code' = -1
    /\ escaped' = "none"
    /\ outcome' = [state |-> "RUNNING", reason |-> "none"]
    /\ previous' = [reason |-> outcome.reason, exit_code |-> exit_code,
                    escaped |-> escaped]
    /\ UNCHANGED <<config_file, metrics_file>>

\* ================================================ agent_lib/test_runner.py
\* Texts (stdout, stderr, lines, identifiers, messages) are sequences of
\* one-character strings; NL is the line terminator.
PYTEST_NO_TESTS_EXIT_CODE == 5

NL == "\n"

IsSpace(c) == c \in {" ", NL, "\t"}

IsDigit(c) == c \in {"0", "1", "2", "3", "4", "5", "6", "7", "8", "9"}

Least(S) == CHOOSE x \in S : \A y \in S : x <= y

Greatest(S) == CHOOSE x \in S : \A y \in S : x >= y

\* s.startswith(p)
StartsWith(s, p) == Len(s) >= Len(p) /\ SubSeq(s, 1, Len(p)) = p

\* p occurs in s at index k.
At(s, k, p) ==
    k >= 1 /\ k + Len(p) - 1 <= Len(s) /\ SubSeq(s, k, k + Len(p) - 1) = p

RECURSIVE splitlines(_)
\* str.splitlines(): the lines without their terminators; a final
\* terminator opens no further line.
splitlines(s) ==
    IF s = <<>> THEN <<>>
    ELSE LET k == FirstIndex(s, NL)
         IN IF k = 0 THEN <<s>>
            ELSE <<SubSeq(s, 1, k - 1)>> \o splitlines(SubSeq(s, k + 1, Len(s)))

RECURSIVE split(_)
\* str.split(): the maximal runs of non-whitespace characters.
split(s) ==
    IF s = <<>> THEN <<>>
    ELSE IF IsSpace(s[1]) THEN split(Tail(s))
    ELSE LET blanks == {i \in 1..Len(s) : IsSpace(s[i])}
             k == IF blanks = {} THEN Len(s) + 1 ELSE Least(blanks)
         IN <<SubSeq(s, 1, k - 1)>> \o split(SubSeq(s, k, Len(s)))

\* str.strip()
strip(s) ==
    LET keep == {i \in 1..Len(s) : ~IsSpace(s[i])}
    IN IF keep = {} THEN <<>> ELSE SubSeq(s, Least(keep), Greatest(keep))

RECURSIVE join(_)
\* "\n".join(lines)
join(lines) ==
    IF lines = <<>> THEN <<>>
    ELSE IF Len(lines) = 1 THEN lines[1]
    ELSE lines[1] \o <<NL>> \o join(Tail(lines))

COLONS == <<":",":">>
FAILED_MARK == <<"F","A","I","L","E","D"," ">>
UNKNOWN == <<"u","n","k","n","o","w","n">>
SYNTAX_MARK == <<":"," ","S","y","n","t","a","x","E","r","r","o","r",":"," ">>
SYNTAX_KIND == <<"S","y","n","t","a","x","E","r","r","o","r",":"," ">>
LINE_OPEN == <<" ","(","l","i","n","e"," ">>
IMPORT_MARK == <<"I","m","p","o","r","t","E","r","r","o","r"," ","w","h","i","l","e"," ","i","m","p","o","r","t","i","n","g"," ","t","e","s","t"," ","m","o","d","u","l","e"," ","'">>
MODULE_NOT_FOUND == <<"M","o","d","u","l","e","N","o","t","F","o","u","n","d","E","r","r","o","r">>
IMPORT_ERROR == <<"I","m","p","o","r","t","E","r","r","o","r">>
IMPORT_FALLBACK == <<"I","m","p","o","r","t"," ","e","r","r","o","r"," ","d","u","r","i","n","g"," ","t","e","s","t"," ","d","i","s","c","o","v","e","r","y">>

\* Index of the last character of the line that holds index k.
LineEnd(t, k) ==
    LET ends == {i \in k..Len(t) : t[i] = NL}
    IN IF ends = {} THEN Len(t) ELSE Least(ends) - 1

\* First index of the run of non-whitespace characters that ends at e.
RunStart(t, e) == Least({s \in 1..e : \A i \in s..e : ~IsSpace(t[i])})

\* Last index of the run of digits that starts at k, k-1 when there is none.
DigitsEnd(t, k) ==
    Greatest({f \in (k - 1)..Len(t) : \A i \in k..f : IsDigit(t[i])})

\* Indices e at which a match of `\S+\.py` can end so that
\* `:(\d+): SyntaxError: (.+)` follows.
SyntaxEnds(t) ==
    {e \in 4..Len(t) :
        /\ SubSeq(t, e - 2, e) = <<".","p","y">>
        /\ ~IsSpace(t[e - 3])
        /\ At(t, e + 1, <<":">>)
        /\ LET f == DigitsEnd(t, e + 2)
           IN /\ f >= e + 2
              /\ At(t, f + 1, SYNTAX_MARK)
              /\ f + Len(SYNTAX_MARK) + 1 <= Len(t)
              /\ t[f + Len(SYNTAX_MARK) + 1] # NL}

\* Indices at which `ImportError while importing test module '([^']+)'`
\* matches.
ImportStarts(t) ==
    {k \in 1..Len(t) :
        /\ At(t, k, IMPORT_MARK)
        /\ LET a == k + Len(IMPORT_MARK)
           IN /\ a <= Len(t)
              /\ t[a] # "'"
              /\ \E q \in (a + 1)..Len(t) : t[q] = "'"}

\* Indices at which `(ModuleNotFoundError|ImportError): (.+)` matches with
\* the given alternative.
ModuleStarts(t, kind) ==
    {k \in 1..Len(t) :
        /\ At(t, k, kind \o <<":"," ">>)
        /\ k + Len(kind) + 2 <= Len(t)
        /\ t[k + Len(kind) + 2] # NL}

NoDiscoveryError == [found |-> FALSE, file_path |-> <<>>, error |-> <<>>]

DiscoveryErrorInfo(f, e) == [found |-> TRUE, file_path |-> f, error |-> e]

\* re.search returns the leftmost match; `\S+` and `.+` are greedy.
check_for_discovery_errors(stdout, stderr) ==
    LET t == stdout \o stderr
    IN IF SyntaxEnds(t) # {}
       THEN LET s == Least({RunStart(t, e) : e \in SyntaxEnds(t)})
                e == Greatest({x \in SyntaxEnds(t) : RunStart(t, x) = s})
                f == DigitsEnd(t, e + 2)
                m == f + Len(SYNTAX_MARK) + 1
            IN DiscoveryErrorInfo(SubSeq(t, s, e),
                   SYNTAX_KIND \o SubSeq(t, m, LineEnd(t, m))
                       \o LINE_OPEN \o SubSeq(t, e + 2, f) \o <<")">>)
       ELSE IF ImportStarts(t) # {}
       THEN LET a == Least(ImportStarts(t)) + Len(IMPORT_MARK)
                q == Least({i \in (a + 1)..Len(t) : t[i] = "'"})
                file_path == SubSeq(t, a, q - 1)
                starts == ModuleStarts(t, MODULE_NOT_FOUND)
                              \cup ModuleStarts(t, IMPORT_ERROR)
            IN IF starts # {}
               THEN LET k == Least(starts)
                        kind == IF At(t, k, MODULE_NOT_FOUND)
                                THEN MODULE_NOT_FOUND ELSE IMPORT_ERROR
                        m == k + Len(kind) + 2
                    IN DiscoveryErrorInfo(file_path,
                           kind \o <<":"," ">> \o SubSeq(t, m, LineEnd(t, m)))
               ELSE DiscoveryErrorInfo(file_path, IMPORT_FALLBACK)
       ELSE NoDiscoveryError

\* A *.py file of the repository: its path relative to repo_path and the
\* text of the PyCompileError compiling it raises, <<>> when it compiles.
PyFile(path, err) == [path |-> path, compile_error |-> err]

\* fast_syntax_precheck that compiles nothing.
precheck_skipped(files) == NoDiscoveryError

\* The loop of fast_syntax_precheck returns at the first file that does
\* not compile.
fast_syntax_precheck(files) ==
    LET bad == {i \in DOMAIN files : files[i].compile_error # <<>>}
    IN IF bad = {} THEN NoDiscoveryError
       ELSE DiscoveryErrorInfo(files[Least(bad)].path,
                               files[Least(bad)].compile_error)

\* sys.implementation.cache_tag of the interpreter.
CACHE_TAG == <<"c","p","y","t","h","o","n","-","3","1","1">>

\* importlib.util.cache_from_source: <dir>/__pycache__/<stem>.<tag>.pyc for
\* <dir>/<stem>.py.
cache_from_source(path) ==
    LET slashes == {k \in 1..Len(path) : path[k] = "/"}
        cut == IF slashes = {} THEN 0 ELSE Greatest(slashes)
    IN SubSeq(path, 1, cut) \o <<"_","_","p","y","c","a","c","h","e","_","_","/">>
       \o SubSeq(path, cut + 1, Len(path) - 3) \o <<".">> \o CACHE_TAG
       \o <<".","p","y","c">>

\* Line 207 without the byte-code file py_compile.compile writes.
precheck_writes_nothing(files) == {}

\* Line 207: py_compile.compile(file, doraise=True) is given no cfile and
\* writes the byte-code of every file it compiles to the file's cache path;
\* the loop compiles the files before the first one that does not compile.
precheck_writes(files) ==
    LET bad == {i \in DOMAIN files : files[i].compile_error # <<>>}
        compiled == IF bad = {} THEN DOMAIN files
                    ELSE {i \in DOMAIN files : i < Least(bad)}
    IN {cache_from_source(files[i].path) : i \in compiled}

RECURSIVE error_lines(_, _, _)
\* The loop of _extract_error_message over the remaining lines.
error_lines(lines, needle, in_failure_section) ==
    IF lines = <<>> THEN <<>>
    ELSE IF Contains(lines[1], needle)
         THEN <<lines[1]>> \o error_lines(Tail(lines), needle, TRUE)
    ELSE IF in_failure_section
         THEN IF StartsWith(lines[1], FAILED_MARK) \/ StartsWith(lines[1], <<"=">>)
              THEN <<>>
              ELSE <<lines[1]>> \o error_lines(Tail(lines), needle, TRUE)
    ELSE error_lines(Tail(lines), needle, FALSE)

_extract_error_message(output, test_nodeid) ==
    LET found == error_lines(splitlines(output), FAILED_MARK \o test_nodeid, FALSE)
    IN IF found # <<>> THEN strip(join(found)) ELSE output

\* FirstColons taking the last "::" instead.
LastColons(s) ==
    LET at == {k \in 1..(Len(s) - 1) : s[k] = ":" /\ s[k + 1] = ":"}
    IN IF at = {} THEN 0 ELSE Greatest(at)

\* Index of the first "::" of s, 0 when there is none.
FirstColons(s) ==
    LET at == {k \in 1..(Len(s) - 1) : s[k] = ":" /\ s[k + 1] = ":"}
    IN IF at = {} THEN 0 ELSE Least(at)

RECURSIVE marker_failures(_, _)
\* The loop of _parse_pytest_failures over the remaining lines.
marker_failures(lines, output) ==
    IF lines = <<>> THEN <<>>
    ELSE LET line == lines[1]
             rest == marker_failures(Tail(lines), output)
         IN IF StartsWith(line, FAILED_MARK) /\ Contains(line, COLONS)
            THEN LET parts == split(line)
                 IN IF Len(parts) >= 2 /\ Contains(parts[2], COLONS)
                    THEN LET test_nodeid == parts[2]
                             k == FirstColons(test_nodeid)
                         IN <<TestFailure(
                                  SubSeq(test_nodeid, k + 2, Len(test_nodeid)),
                                  SubSeq(test_nodeid, 1, k - 1),
                                  _extract_error_message(output, test_nodeid))>>
                            \o rest
                    ELSE rest
            ELSE rest

_parse_pytest_failures(output) ==
    LET failures == marker_failures(splitlines(output), output)
    IN IF failures = <<>>
       THEN <<TestFailure(UNKNOWN, UNKNOWN, output)>>
       ELSE failures

\* Lines 87-94: a leading "pytest" becomes "python -m pytest" and "-v" is
\* appended unless a verbose flag is there.
command_tokens(cmd) ==
    IF cmd # <<>> /\ cmd[1] = "pytest"
    THEN LET t == <<"python", "-m", "pytest">> \o Tail(cmd)
         IN IF \E i \in DOMAIN t : t[i] \in {"-v", "--verbose"}
            THEN t ELSE Append(t, "-v")
    ELSE cmd

\* run_tests_completed with the FAILED markers looked for before the
\* discovery-error patterns.
run_tests_markers_first(proc) ==
    LET output == proc.stdout \o proc.stderr
        discovery_error == check_for_discovery_errors(proc.stdout, proc.stderr)
        failures == marker_failures(splitlines(output), output)
    IN IF proc.returncode = 0 THEN TestResult(TRUE, <<>>)
       ELSE IF proc.returncode = PYTEST_NO_TESTS_EXIT_CODE
       THEN TestResult(TRUE, <<>>)
       ELSE IF failures # <<>> THEN TestResult(FALSE, failures)
       ELSE IF discovery_error.found
       THEN TestResult(FALSE, <<TestFailure(discovery_error.error,
                                            discovery_error.file_path,
                                            discovery_error.error)>>)
       ELSE TestResult(FALSE, _parse_pytest_failures(output))

\* Lines 113-145: the result for a command that ran to completion.
run_tests_completed(proc) ==
    LET output == proc.stdout \o proc.stderr
        discovery_error == check_for_discovery_errors(proc.stdout, proc.stderr)
    IN IF proc.returncode = 0 THEN TestResult(TRUE, <<>>)
       ELSE IF proc.returncode = PYTEST_NO_TESTS_EXIT_CODE
       THEN TestResult(TRUE, <<>>)
       ELSE IF discovery_error.found
       THEN TestResult(FALSE, <<TestFailure(discovery_error.error,
                                            discovery_error.file_path,
                                            discovery_error.error)>>)
       ELSE TestResult(FALSE, _parse_pytest_failures(output))

\* Lines 68-81: run_tests starts with the syntax pre-check.
FastSyntaxPrecheck ==
    /\ rt_pc = "precheck"
    /\ LET syntax_error == fast_syntax_precheck(repo_files)
       IN IF syntax_error.found
          THEN /\ test_result' =
                    <<TestResult(FALSE, <<TestFailure(syntax_error.error,
                                                      syntax_error.file_path,
                                                      syntax_error.error)>>)>>
               /\ rt_pc' = "returned"
          ELSE /\ rt_pc' = "spawn"
               /\ UNCHANGED test_result
    /\ bytecode' = bytecode \cup precheck_writes(repo_files)
    /\ UNCHANGED <<command, repo_files, process, spawned>>
    /\ UNCHANGED notRunnerVars

\* Lines 87-111: subprocess.run of the tokenised command.
RunCommand ==
    /\ rt_pc = "spawn"
    /\ spawned' = Append(spawned, command_tokens(command))
    /\ IF process.kind \in {"TimeoutExpired", "FileNotFoundError"}
       THEN /\ test_result' = <<TestResult(FALSE, <<>>)>>
            /\ rt_pc' = "returned"
       ELSE /\ rt_pc' = "classify"
            /\ UNCHANGED test_result
    /\ UNCHANGED <<command, repo_files, process, bytecode>>
    /\ UNCHANGED notRunnerVars

\* Lines 113-145.
ClassifyRun ==
    /\ rt_pc = "classify"
    /\ test_result' = <<run_tests_completed(process)>>
    /\ rt_pc' = "returned"
    /\ UNCHANGED <<command, repo_files, process, spawned, bytecode>>
    /\ UNCHANGED notRunnerVars

\* ---- the calls of run_tests made in the model
\* Number of lines of the longest stdout.
MaxOutputLines == 3

LineFailedOne == <<"F","A","I","L","E","D"," ","a",".","p","y",":",":","t","1"," ","-"," ","x">>
LineFailedTen == <<"F","A","I","L","E","D"," ","a",".","p","y",":",":","t","1","0"," ","-"," ","y">>
LineFailedInClass == <<"F","A","I","L","E","D"," ","a",".","p","y",":",":","C",":",":","t","2">>
LineFailedBare == <<"F","A","I","L","E","D"," ","a",".","p","y">>
LineDetail == <<"E"," ","a","s","s","e","r","t"," ","0">>
LineSeparator == <<"=","=","="," ","1"," ","f","a","i","l","e","d">>
LineSyntaxError == <<"b",".","p","y",":","3",":"," ","S","y","n","t","a","x","E","r","r","o","r",":"," ","b","a","d">>
LineImportError == <<"I","m","p","o","r","t","E","r","r","o","r"," ","w","h","i","l","e"," ","i","m","p","o","r","t","i","n","g"," ","t","e","s","t"," ","m","o","d","u","l","e"," ","'","m",".","p","y","'",".">>
LineModuleError == <<"E"," ","M","o","d","u","l","e","N","o","t","F","o","u","n","d","E","r","r","o","r",":"," ","n","o"," ","m">>

OutputLines ==
    {LineFailedOne, LineFailedTen, LineFailedInClass, LineFailedBare,
     LineDetail,
     LineSeparator, LineSyntaxError, LineImportError, LineModuleError}

RECURSIVE Text(_)
\* The text whose lines are ls, each line terminated.
Text(ls) == IF ls = <<>> THEN <<>> ELSE ls[1] \o <<NL>> \o Text(Tail(ls))

Texts ==
    {Text(ls) : ls \in UNION {[1..n -> OutputLines] : n \in 0..MaxOutputLines}}

Completed(rc, out, err) ==
    [kind |-> "completed", returncode |-> rc, stdout |-> out, stderr |-> err]

ProcessTimeout ==
    [kind |-> "TimeoutExpired", returncode |-> 0, stdout |-> <<>>, stderr |-> <<>>]

ProcessNotFound ==
    [kind |-> "FileNotFoundError", returncode |-> 0, stdout |-> <<>>, stderr |-> <<>>]

Processes ==
    {Completed(rc, out, <<>>) : rc \in {0, 1, PYTEST_NO_TESTS_EXIT_CODE}, out \in Texts}
    \cup {Completed(2, <<>>, Text(<<LineSyntaxError>>))}

FewProcesses ==
    {ProcessTimeout, ProcessNotFound, Completed(0, <<>>, <<>>),
     Completed(1, Text(<<LineFailedOne>>), <<>>)}

FileGood == PyFile(<<"a",".","p","y">>, <<>>)
FileBad == PyFile(<<"b",".","p","y">>, <<"S","y","n","t","a","x","E","r","r","o","r",":"," ","x">>)
FileWorse == PyFile(<<"p","k","g","/","c",".","p","y">>, <<"I","n","d","e","n","t","a","t","i","o","n","E","r","r","o","r",":"," ","y">>)

RepoTrees ==
    {<<>>, <<FileGood>>, <<FileBad>>, <<FileGood, FileBad>>,
     <<FileBad, FileWorse>>, <<FileGood, FileWorse, FileBad>>}

CommandPytest == <<"pytest", "--maxfail=1">>
CommandVerbose == <<"pytest", "-v">>
CommandOther == <<"invalid_command_that_does_not_exist">>

RunnerCalls ==
    {[command |-> c, repo_files |-> t, process |-> p] :
        c \in {CommandPytest, CommandVerbose, CommandOther},
        t \in RepoTrees, p \in FewProcesses}
    \cup {[command |-> CommandPytest, repo_files |-> <<FileGood>>,
           process |-> p] : p \in Processes}

RunnerIdle ==
    /\ command = <<>>
    /\ repo_files = <<>>
    /\ process = ProcessNotFound
    /\ rt_pc = "idle"
    /\ spawned = <<>>
    /\ bytecode = {}
    /\ test_result = <<>>

\* ========================================= agent_lib/llm_patch_generator.py
\* Default of the max_retries parameter of generate_patch_with_retry.
DEFAULT_MAX_RETRIES == 2

\* Largest max_retries a direct call of generate_patch_with_retry passes.
MaxRetries == 2

CANNOT_READ == "Cannot read source file"
FAILED_TO_GENERATE == "Failed to generate patch"
NOT_VALID_AFTER == "Failed to generate syntactically valid patch"
FIX_TEST_FAILURE == "Fix test failure: "
RETRY_HINT == "IMPORTANT: Your previous patch had syntax errors."

\* What one backend call does: it raises, or returns a diff which, applied
\* to the original source, parses or not.
BackendRaises == [raises |-> TRUE, diff |-> "", parses |-> FALSE]

Candidate(d, ok) == [raises |-> FALSE, diff |-> d, parses |-> ok]

BackendOutcomes ==
    {BackendRaises, Candidate("diff_ok", TRUE), Candidate("diff_broken", FALSE)}

\* ast_validate_patch that accepts every candidate.
ast_validate_skipped(candidate) == TRUE

\* ast_validate_patch: apply_diff_to_source, then ast.parse; every
\* exception becomes False.
ast_validate_patch(candidate) == candidate.parses

NoPatch == [kind |-> "none", diff_content |-> "", message |-> ""]

PatchResult(d) == [kind |-> "PatchResult", diff_content |-> d, message |-> ""]

PatchGenerationError(msg) ==
    [kind |-> "PatchGenerationError", diff_content |-> "", message |-> msg]

\* One _call_llm: the attempt it belongs to (-1 for the call of
\* generate_patch's own fallback) and the error_output of the failure it
\* was given, as the list of the pieces the f-string puts together.
LlmCall(a, err, out) == [attempt |-> a, error_output |-> err, outcome |-> out]

\* Lines 225-229: the error_output of the failure a retry is called with.
retry_prompt(prompt) == <<prompt, RETRY_HINT>>

\* LastAttempt that allows one attempt more.
LastAttemptLate(a, n) == a = n + 1

\* `attempt == max_retries`: a is the last value of range(max_retries + 1).
LastAttempt(a, n) == a = n

\* Lines 210-217 of generate_patch_with_retry, and lines 133-136 of
\* generate_patch for the error they raise.
ReadSource ==
    /\ gen_pc = "read"
    /\ IF source_file \in {"FileNotFoundError", "UnicodeDecodeError"}
       THEN IF gen_entry = "generate_patch"
            THEN /\ gen_pc' = "fallback"
                 /\ UNCHANGED patch
            ELSE /\ gen_pc' = "done"
                 /\ patch' = PatchGenerationError(CANNOT_READ)
       ELSE /\ gen_pc' = "attempt"
            /\ UNCHANGED patch
    /\ UNCHANGED <<gen_entry, max_retries, test_failure, source_file, attempt,
                   original_prompt, llm_calls>>
    /\ UNCHANGED notGeneratorVars

\* Lines 219-254: one turn of the loop of generate_patch_with_retry.
Attempt ==
    /\ gen_pc = "attempt"
    /\ \E out \in BackendOutcomes :
         LET err == IF attempt = 0 THEN <<test_failure.error_output>>
                    ELSE retry_prompt(original_prompt)
         IN /\ llm_calls' = Append(llm_calls, LlmCall(attempt, err, out))
            /\ original_prompt' =
                 IF attempt = 0 /\ ~out.raises
                 THEN <<FIX_TEST_FAILURE, test_failure.error_output>>
                 ELSE original_prompt
            /\ IF ~out.raises /\ ast_validate_patch(out)
               THEN /\ patch' = PatchResult(out.diff)
                    /\ gen_pc' = "done"
                    /\ UNCHANGED attempt
               ELSE IF LastAttempt(attempt, max_retries)
               THEN /\ patch' = PatchGenerationError(
                                    IF out.raises THEN FAILED_TO_GENERATE
                                    ELSE NOT_VALID_AFTER)
                    /\ gen_pc' = "done"
                    /\ UNCHANGED attempt
               ELSE /\ attempt' = attempt + 1
                    /\ UNCHANGED <<patch, gen_pc>>
    /\ UNCHANGED <<gen_entry, max_retries, test_failure, source_file>>
    /\ UNCHANGED notGeneratorVars

\* fallback_result with the syntax check of the retry loop.
fallback_checked(out) ==
    IF out.raises \/ ~ast_validate_patch(out)
    THEN PatchGenerationError(FAILED_TO_GENERATE)
    ELSE PatchResult(out.diff)

\* Lines 138-145: what generate_patch makes of its own backend call.
fallback_result(out) ==
    IF out.raises THEN PatchGenerationError(FAILED_TO_GENERATE)
    ELSE PatchResult(out.diff)

\* Lines 137-145 of generate_patch: one call, returned unchecked.
Fallback ==
    /\ gen_pc = "fallback"
    /\ \E out \in BackendOutcomes :
         /\ llm_calls' = Append(llm_calls,
                                LlmCall(-1, <<test_failure.error_output>>, out))
         /\ patch' = fallback_result(out)
    /\ gen_pc' = "done"
    /\ UNCHANGED <<gen_entry, max_retries, test_failure, source_file, attempt,
                   original_prompt>>
    /\ UNCHANGED notGeneratorVars

\* ---- the calls of the generator made in the model
SourceFiles == {"readable", "FileNotFoundError", "UnicodeDecodeError"}

GeneratorFailures ==
    {TestFailure(NameExample, "example.py", "assert 2 == 3"),
     TestFailure(DISCOVERY_ERROR, "broken.py", "SyntaxError: x (line 3)")}

\* main calls generate_patch, which passes no max_retries; the tests also
\* call generate_patch_with_retry themselves.
GeneratorCalls ==
    {[entry |-> "generate_patch", max_retries |-> DEFAULT_MAX_RETRIES,
      test_failure |-> f, source_file |-> s] :
        f \in GeneratorFailures, s \in SourceFiles}
    \cup {[entry |-> "generate_patch_with_retry", max_retries |-> n,
           test_failure |-> f, source_file |-> s] :
        n \in 0..MaxRetries, f \in GeneratorFailures, s \in SourceFiles}

GeneratorIdle ==
    /\ gen_entry = "none"
    /\ max_retries = DEFAULT_MAX_RETRIES
    /\ test_failure = TestFailure(NameExample, "example.py", "assert 2 == 3")
    /\ source_file = "readable"
    /\ gen_pc = "idle"
    /\ attempt = 0
    /\ original_prompt = <<"None">>
    /\ llm_calls = <<>>
    /\ patch = NoPatch

\* ------------------------------------------------- apply_diff_to_source
\* Source texts and diffs are sequences of one-character strings.
RECURSIVE splitlines_keepends(_)
\* str.splitlines(keepends=True)
splitlines_keepends(s) ==
    IF s = <<>> THEN <<>>
    ELSE LET k == FirstIndex(s, NL)
         IN IF k = 0 THEN <<s>>
            ELSE <<SubSeq(s, 1, k)>>
                     \o splitlines_keepends(SubSeq(s, k + 1, Len(s)))

RECURSIVE concat(_)
\* "".join(parts)
concat(parts) == IF parts = <<>> THEN <<>> ELSE parts[1] \o concat(Tail(parts))

\* s.split(",")[0]
BeforeComma(s) ==
    LET k == FirstIndex(s, ",") IN IF k = 0 THEN s ELSE SubSeq(s, 1, k - 1)

\* int(s) returns: s is an optional sign followed by digits.
IsIntLiteral(s) ==
    LET digits == IF s # <<>> /\ s[1] \in {"+", "-"} THEN Tail(s) ELSE s
    IN digits # <<>> /\ \A i \in DOMAIN digits : IsDigit(digits[i])

HUNK_MARK == <<"@","@">>

\* What a call gives: the returned text, or the exception that left it.
ReturnedText(t) == [raised |-> "none", text |-> t]

RaisedError(exc) == [raised |-> exc, text |-> <<>>]

RECURSIVE replay(_, _, _, _)
\* Lines 62-82: the loop over the diff lines after the header, then the
\* loop over the remaining original lines.  original_line_idx counts from 0.
replay(diff_lines, lines, original_line_idx, result_lines) ==
    IF diff_lines = <<>>
    THEN result_lines
             \o [k \in 1..(Len(lines) - original_line_idx) |->
                     lines[original_line_idx + k]]
    ELSE LET line == diff_lines[1]
             rest == Tail(diff_lines)
         IN IF StartsWith(line, <<" ">>)
            THEN IF original_line_idx < Len(lines)
                 THEN replay(rest, lines, original_line_idx + 1,
                             Append(result_lines, lines[original_line_idx + 1]))
                 ELSE replay(rest, lines, original_line_idx, result_lines)
            ELSE IF StartsWith(line, <<"-">>)
            THEN replay(rest, lines, original_line_idx + 1, result_lines)
            ELSE IF StartsWith(line, <<"+">>)
            THEN replay(rest, lines, original_line_idx,
                        Append(result_lines, Tail(line) \o <<NL>>))
            ELSE replay(rest, lines, original_line_idx, result_lines)

apply_diff_to_source(original, diff) ==
    LET lines == splitlines_keepends(original)
        diff_lines == splitlines(diff)
        headers == {i \in DOMAIN diff_lines : StartsWith(diff_lines[i], HUNK_MARK)}
    IN IF headers = {} THEN ReturnedText(original)
       ELSE LET i == Least(headers)
                parts == split(diff_lines[i])
            IN IF Len(parts) >= 3 /\ ~IsIntLiteral(BeforeComma(Tail(parts[2])))
               THEN RaisedError("ValueError")
               ELSE ReturnedText(concat(
                        replay(SubSeq(diff_lines, i + 1, Len(diff_lines)),
                               lines, 0, <<>>)))

\* One call of apply_diff_to_source.
ApplyDiff ==
    /\ ap_pc = "call"
    /\ modified_source' = apply_diff_to_source(original_source, diff_content)
    /\ ap_pc' = "returned"
    /\ UNCHANGED <<original_source, diff_content, edit>>
    /\ UNCHANGED notApplierVars

\* ---- the calls of apply_diff_to_source made in the model
\* Number of lines of the longest original source.
MaxSourceLines == 3

\* Number of context lines a computed diff carries on each side.
MaxContext == 1

SourceLines == {<<"a">>, <<"b">>}

Originals ==
    UNION {[1..n -> SourceLines] : n \in 0..MaxSourceLines}

\* An edit of a source of n lines: `deleted` lines from line `start` on are
\* replaced by the lines `added`; the diff shows `context` lines around.
Edits(n) ==
    {[kind |-> "computed", start |-> p, deleted |-> d, added |-> a,
      context |-> c] :
        p \in 1..(n + 1), d \in 0..1, a \in {<<>>, <<<<"X">>>>},
        c \in 0..MaxContext}

\* The edits that stay inside the source and change it.
RealEdits(n) ==
    {e \in Edits(n) :
        /\ e.start + e.deleted - 1 <= n
        /\ e.deleted > 0 \/ e.added # <<>>}

\* The new content of the edit.
NewLines(ls, e) ==
    SubSeq(ls, 1, e.start - 1) \o e.added
        \o SubSeq(ls, e.start + e.deleted, Len(ls))

Prefixed(c, ls) == [i \in DOMAIN ls |-> <<c>> \o ls[i]]

\* The unified diff of the edit, as diff -U<context> writes it: the two
\* file lines, the hunk header with the old and the new range, and the
\* hunk.
UnifiedDiff(ls, e) ==
    LET first == IF e.start - e.context < 1 THEN 1 ELSE e.start - e.context
        last0 == e.start + e.deleted - 1 + e.context
        last == IF last0 > Len(ls) THEN Len(ls) ELSE last0
        before == SubSeq(ls, first, e.start - 1)
        gone == SubSeq(ls, e.start, e.start + e.deleted - 1)
        after == SubSeq(ls, e.start + e.deleted, last)
        old_count == last - first + 1
        new_count == old_count - e.deleted + Len(e.added)
        old_start == IF old_count = 0 THEN first - 1 ELSE first
        new_start == IF new_count = 0 THEN first - 1 ELSE first
        header == <<"@","@"," ","-">> \o IntToStr(old_start) \o <<",">> \o IntToStr(old_count)
                      \o <<" ","+">> \o IntToStr(new_start) \o <<",">>
                      \o IntToStr(new_count) \o <<" ","@","@">>
    IN Text(<<<<"-","-","-"," ","a","/","f",".","p","y">>, <<"+","+","+"," ","b","/","f",".","p","y">>, header>>
            \o Prefixed(" ", before) \o Prefixed("-", gone)
            \o Prefixed("+", e.added) \o Prefixed(" ", after))

\* Diffs without a valid hunk header: no text, no "@@" line, an "@@" line
\* whose old range does not start with a number.
NoEdit == [kind |-> "none", start |-> 0, deleted |-> 0, added |-> <<>>,
           context |-> 0]

DiffEmpty == <<>>
DiffNoHeader == Text(<<<<"-","-","-"," ","a","/","f",".","p","y">>, <<"+","+","+"," ","b","/","f",".","p","y">>, <<"-","a">>, <<"+","X">>>>)
DiffHeaderNotNumber == Text(<<<<"-","-","-"," ","a","/","f",".","p","y">>, <<"@","@"," ","-","x",",","1"," ","+","1",",","1"," ","@","@">>, <<"-","a">>, <<"+","X">>>>)
DiffHeaderNoStart == Text(<<<<"@","@"," ","-",",","1"," ","+","1",",","1"," ","@","@">>, <<"-","a">>, <<"+","X">>>>)

HeaderlessDiffs ==
    {DiffEmpty, DiffNoHeader, DiffHeaderNotNumber, DiffHeaderNoStart}

ApplierCalls ==
    UNION {{[original_source |-> Text(ls), diff_content |-> UnifiedDiff(ls, e),
             edit |-> e] : e \in RealEdits(Len(ls))} : ls \in Originals}
    \cup {[original_source |-> Text(ls), diff_content |-> d, edit |-> NoEdit] :
              ls \in Originals, d \in HeaderlessDiffs}

ApplierIdle ==
    /\ original_source = <<>>
    /\ diff_content = <<>>
    /\ edit = NoEdit
    /\ ap_pc = "idle"
    /\ modified_source = ReturnedText(<<>>)

\* ------------------------------------------ the branch name of main
\* Lines 375-383: the name main computes and hands to create_branch.
NameBranch ==
    /\ created_branch = <<>>
    /\ created_branch' = <<BranchNameFor(naming.branch_prefix,
                                         naming.test_name, naming.iteration)>>
    /\ naming' = [naming EXCEPT !.fixed = <<naming.test_name>>]
    /\ UNCHANGED notNamingVars

\* ---- the branch names computed in the model
PrefixUnderscore == <<"m","y","_","f","i","x">>
PrefixSpaced == <<"m","y"," ","f","i","x">>
PrefixColon == <<"x","_","y",":","z">>

BranchPrefixes ==
    {PrefixDevAgent, PrefixShort, PrefixUnderscore, PrefixSpaced, PrefixColon}

NameColon == <<"a",":","b">>
NameSpaced == <<"t"," ","f">>
NameNodeId == <<"a",".","p","y",":",":","T",":",":","t"," ","f">>
NameColons == <<"t",":",":",":","u">>
NamePlain == <<"t">>
NameNumbered == <<"t","_","2">>

TestNames ==
    {NameExample, NameInClass, DISCOVERY_ERROR, NameColon, NameSpaced,
     NameNodeId, NameColons, NamePlain, NameNumbered}

Namings ==
    [branch_prefix : BranchPrefixes, test_name : TestNames,
     iteration : 0..(MaxIterations - 1), attempt : {0}, fixed : {<<>>}]

\* Lines 340-383 in the iteration after a failing retest: the test run may
\* report any test, and the name for it is handed to create_branch.
NameNextBranch ==
    /\ created_branch # <<>>
    /\ naming.iteration < MaxIterations - 1
    /\ \E t \in TestNames :
         /\ naming' = [naming EXCEPT !.test_name = t,
                                     !.iteration = naming.iteration + 1,
                                     !.fixed = Append(naming.fixed, t)]
         /\ created_branch' =
              Append(created_branch,
                     BranchNameFor(naming.branch_prefix, t,
                                   naming.iteration + 1))
    /\ UNCHANGED notNamingVars

NamingIdle ==
    /\ naming = [branch_prefix |-> PrefixDevAgent, test_name |-> NameExample,
                 iteration |-> 0, attempt |-> 0, fixed |-> <<>>]
    /\ created_branch = <<>>

\* ---- the dev_agent.py processes the supervisor starts
SubprocessResult(cause, rc, err) ==
    [test_command |-> cause, returncode |-> rc, stderr |-> err]

\* What Python writes to stderr when NoTestsFoundError leaves main
\* (dev_agent.py, line 363): the traceback ends with the exception.
STDERR_NO_TESTS_FOUND == <<"N","o","T","e","s","t","s","F","o","u","n","d","E","r","r","o","r",":"," ","N","o"," ","t","e","s","t"," ","f","a","i","l","u","r","e","s"," ","d","e","t","e","c","t","e","d">>
STDERR_PERMISSION_VENV == <<"P","e","r","m","i","s","s","i","o","n","E","r","r","o","r",":"," ","v","e","n","v","/","b","i","n">>
STDERR_PERMISSION == <<"P","e","r","m","i","s","s","i","o","n","E","r","r","o","r",":"," ","/","t","m","p">>
STDERR_VENV == <<"v","e","n","v"," ","n","o","t"," ","f","o","u","n","d">>
STDERR_OTHER == <<"S","o","m","e"," ","r","e","a","l"," ","e","r","r","o","r"," ","o","c","c","u","r","r","e","d">>

\* dev_agent.py, lines 345-363, seen from the parent process: what a
\* dev-agent process whose first test run is p ends with.  A run that goes
\* on to patch generation may end with any exit code and stderr.
dev_agent_process(p) ==
    LET tr == IF p.kind \in {"TimeoutExpired", "FileNotFoundError"}
              THEN TestResult(FALSE, <<>>)
              ELSE run_tests_completed(p)
        arm == StartBranch(TestRunner_run_tests(tr))
    IN CASE arm = "passed" -> {SubprocessResult(p.kind, 0, <<>>)}
         [] arm = "no_failures" ->
              {SubprocessResult(p.kind, 1, STDERR_NO_TESTS_FOUND)}
         [] OTHER ->
              {SubprocessResult(p.kind, 0, <<>>),
               SubprocessResult(p.kind, 1, STDERR_PERMISSION_VENV),
               SubprocessResult(p.kind, 1, STDERR_PERMISSION),
               SubprocessResult(p.kind, 1, STDERR_VENV),
               SubprocessResult(p.kind, 2, STDERR_OTHER)}

DevAgentRuns == UNION {dev_agent_process(p) : p \in FewProcesses}

\* ================================================ supervisor/supervisor.py
\* Default of the max_retries parameter of Supervisor.__init__.
SUPERVISOR_MAX_RETRIES == 2

RECURSIVE split_on(_, _)
\* str.split(sep) for a one-character sep: every segment, empty ones too.
split_on(s, sep) ==
    LET k == FirstIndex(s, sep)
    IN IF k = 0 THEN <<s>>
       ELSE <<SubSeq(s, 1, k - 1)>> \o split_on(SubSeq(s, k + 1, Len(s)), sep)

RECURSIVE sentences_of(_)
\* Line 40: [s.strip() for s in segments if s.strip()]
sentences_of(segments) ==
    IF segments = <<>> THEN <<>>
    ELSE IF strip(segments[1]) = <<>> THEN sentences_of(Tail(segments))
    ELSE <<strip(segments[1])>> \o sentences_of(Tail(segments))

\* Lines 26-53: StoryParser.parse.
parse(text) ==
    IF text = <<>> \/ strip(text) = <<>> THEN <<>>
    ELSE LET sentences == sentences_of(split_on(text, "."))
         IN [i \in 1..Len(sentences) |->
               [id |-> i,
                description |-> strip(sentences[i]) \o <<".">>,
                status |-> "pending"]]

NO_TEST_FAILURES == <<"N","o"," ","t","e","s","t"," ","f","a","i","l","u","r","e","s"," ","d","e","t","e","c","t","e","d">>
PERMISSION_ERROR == <<"P","e","r","m","i","s","s","i","o","n","E","r","r","o","r">>
VENV == <<"v","e","n","v">>

\* succeeded that looks at the exit code alone.
succeeded_by_exit_code(r) == r.returncode = 0

\* Lines 116-138: the outcomes of a dev-agent process that complete the
\* subtask.
succeeded(r) ==
    \/ r.returncode = 0
    \/ Contains(r.stderr, NO_TEST_FAILURES)
    \/ Contains(r.stderr, PERMISSION_ERROR) /\ Contains(r.stderr, VENV)

\* will_retry that allows one attempt more.
will_retry_inclusive(a, n) == a <= n

\* Line 141: a failed attempt is followed by another one.
will_retry(a, n) == a < n

\* stops_on that lets the loop go on after a failed subtask.
stops_never(success) == FALSE

\* Line 223: the loop over the subtasks ends at the first failed one.
stops_on(success) == ~success

\* no_plan that accepts an empty subtask list.
no_plan_accepted(tasks) == FALSE

\* Line 205: a story that parses into no subtask.
no_plan(tasks) == tasks = <<>>

\* short_circuits that executes the plan in dry-run mode too.
short_circuits_never(dry) == FALSE

\* Line 215: dry-run mode ends run before any subtask is executed.
short_circuits(dry) == dry

CountStatus(tasks, st) == Cardinality({i \in 1..Len(tasks) : tasks[i].status = st})

\* _generate_approval_check that approves whatever the statuses are.
approval_unconditional(tasks) ==
    [status |-> "approved",
     completed_subtasks |-> CountStatus(tasks, "completed"),
     total_subtasks |-> Len(tasks),
     failed_count |-> 0]

\* Lines 153-187.  failed_count is the number the rejection message names,
\* 0 in an approval.
_generate_approval_check(tasks) ==
    LET total_subtasks == Len(tasks)
        completed_count == CountStatus(tasks, "completed")
    IN IF completed_count = total_subtasks /\ total_subtasks > 0
       THEN [status |-> "approved",
             completed_subtasks |-> completed_count,
             total_subtasks |-> total_subtasks,
             failed_count |-> 0]
       ELSE [status |-> "rejected",
             completed_subtasks |-> completed_count,
             total_subtasks |-> total_subtasks,
             failed_count |-> total_subtasks - completed_count]

\* Line 210: the plan dictionary; status and approval are absent ("none",
\* <<>>) until lines 230-232 set them.
Plan(text, tasks, dry, st, appr) ==
    [story |-> text, subtasks |-> tasks, dry_run |-> dry, status |-> st,
     approval |-> appr]

\* run returns code.
Return(code) ==
    /\ run_code' = code
    /\ sup_pc' = "returned"

\* Lines 199-218 of Supervisor.run: up to the first subtask.
SupervisorRun ==
    /\ sup_pc = "run"
    /\ UNCHANGED <<story, dry_run, sup_max_retries, dev_agent_result,
                   invocations, approval>>
    /\ UNCHANGED notSupervisorVars
    /\ IF story = <<>> \/ strip(story) = <<>>
       THEN /\ Return(1)
            /\ UNCHANGED <<subtasks, subtask_num, sup_attempt, emitted>>
       ELSE LET parsed == parse(strip(story))
            IN /\ subtasks' = parsed
               /\ UNCHANGED sup_attempt
               /\ IF no_plan(parsed)
                  THEN /\ Return(1)
                       /\ UNCHANGED <<subtask_num, emitted>>
                  ELSE IF short_circuits(dry_run)
                  THEN /\ emitted' = <<Plan(strip(story), parsed, dry_run,
                                            "none", <<>>)>>
                       /\ Return(0)
                       /\ UNCHANGED subtask_num
                  ELSE IF parsed = <<>>
                  THEN \* lines 229-234 after a loop over no subtask
                       LET appr == _generate_approval_check(parsed)
                       IN /\ emitted' = <<Plan(strip(story), parsed, dry_run,
                                               "completed", <<appr>>)>>
                          /\ Return(0)
                          /\ UNCHANGED subtask_num
                  ELSE /\ subtask_num' = 1
                       /\ sup_pc' = "execute"
                       /\ UNCHANGED <<emitted, run_code>>

\* Lines 87-151 and 221-234: one attempt of the current subtask, a
\* dev_agent.py process, and what run does until the next attempt or its
\* return.
InvokeDevAgent ==
    /\ sup_pc = "execute"
    /\ UNCHANGED <<story, dry_run, sup_max_retries>>
    /\ UNCHANGED notSupervisorVars
    /\ \E r \in DevAgentRuns :
         LET ok == succeeded(r)
             after == IF ok
                      THEN [subtasks EXCEPT ![subtask_num].status = "completed"]
                      ELSE subtasks
             over == ok \/ ~will_retry(sup_attempt, sup_max_retries)
         IN /\ dev_agent_result' = <<r>>
            /\ invocations' =
                 Append(invocations,
                        [subtask_num |-> subtask_num,
                         attempt |-> sup_attempt,
                         story |-> subtasks[subtask_num].description,
                         completed |-> ok])
            /\ subtasks' = after
            /\ IF ~over
               THEN /\ sup_attempt' = sup_attempt + 1
                    /\ UNCHANGED <<subtask_num, sup_pc, run_code, emitted,
                                   approval>>
               ELSE IF stops_on(ok)
               THEN /\ approval' = <<_generate_approval_check(after)>>
                    /\ Return(1)
                    /\ UNCHANGED <<subtask_num, sup_attempt, emitted>>
               ELSE IF subtask_num < Len(subtasks)
               THEN /\ subtask_num' = subtask_num + 1
                    /\ sup_attempt' = 0
                    /\ UNCHANGED <<sup_pc, run_code, emitted, approval>>
               ELSE LET appr == _generate_approval_check(after)
                    IN /\ approval' = <<appr>>
                       /\ emitted' = <<Plan(strip(story), after, dry_run,
                                            "completed", <<appr>>)>>
                       /\ Return(0)
                       /\ UNCHANGED <<subtask_num, sup_attempt>>

\* ---- the runs of the supervisor made in the model
\* Largest max_retries a Supervisor is constructed with.
MaxSubtaskRetries == 2

StoryEmpty == <<>>
StoryBlank == <<" "," ">>
StoryDot == <<".">>
StoryDots == <<" ","."," ",".">>
StoryOne == <<"F","i","x"," ","i","t",".">>
StoryTwo == <<"A","d","d"," ","f","."," ","T","e","s","t"," ","f">>
StoryThree == <<" ","W","r","i","t","e","."," ","B","u","i","l","d",".",".","R","u","n","."," ">>

Stories ==
    {StoryEmpty, StoryBlank, StoryDot, StoryDots, StoryOne, StoryTwo,
     StoryThree}

SupervisorIdle ==
    /\ story = <<>>
    /\ dry_run = FALSE
    /\ sup_max_retries = SUPERVISOR_MAX_RETRIES
    /\ sup_pc = "idle"
    /\ subtasks = <<>>
    /\ subtask_num = 0
    /\ sup_attempt = 0
    /\ dev_agent_result = <<>>
    /\ invocations = <<>>
    /\ emitted = <<>>
    /\ approval = <<>>
    /\ run_code = -1

\* ========================================================= agent_loop.py
\* Default of max_iterations in run_autogen_loop (line 72).
AUTOGEN_MAX_ITERATIONS == 5

\* A message handed to send_message: role, type and the metadata the loop
\* or a later reader looks at ("absent" for a key the metadata lacks).
Message(role, type, it, approved, success) ==
    [role |-> role, type |-> type, iteration |-> it, approved |-> approved,
     success |-> success]

\* What the metadata of a review may hold under "approved".
ReviewVerdicts == {"True", "False", "None", "absent"}

\* review_approves that applies whatever the review says.
review_ignored(verdict) == TRUE

\* Lines 107-111: approved = metadata.get("approved", False), tested for
\* truth.
review_approves(verdict) == verdict = "True"

\* Line 125.
AutogenReturn(passing) ==
    autogen' = [autogen EXCEPT !.pc = "returned", !.tests_passing = passing,
                               !.returned = IF passing THEN "True" ELSE "False"]

\* Lines 84-96: the loop condition, and the test run of a turn.
AutogenRunTests ==
    /\ autogen.pc = "tests"
    /\ UNCHANGED sent
    /\ UNCHANGED notAutogenVars
    /\ IF autogen.iteration < autogen.max_iterations /\ ~autogen.tests_passing
       THEN \E exit_code_0 \in BOOLEAN :
              IF exit_code_0
              THEN autogen' = [autogen EXCEPT
                                 !.iteration = autogen.iteration + 1,
                                 !.pc = "returned",
                                 !.tests_passing = TRUE,
                                 !.returned = "True"]
              ELSE autogen' = [autogen EXCEPT
                                 !.iteration = autogen.iteration + 1,
                                 !.pc = "patch"]
       ELSE AutogenReturn(autogen.tests_passing)

\* Lines 99-100: the patch of the DevAgent is sent.
AutogenPatch ==
    /\ autogen.pc = "patch"
    /\ sent' = Append(sent, Message("DevAgent", "patch", autogen.iteration,
                                    "None", "absent"))
    /\ autogen' = [autogen EXCEPT !.pc = "review"]
    /\ UNCHANGED notAutogenVars

\* Lines 104-118: the review of the Supervisor is sent and read.
AutogenReview ==
    /\ autogen.pc = "review"
    /\ \E verdict \in ReviewVerdicts :
         /\ sent' = Append(sent, Message("Supervisor", "review",
                                         autogen.iteration, verdict, "absent"))
         /\ autogen' = [autogen EXCEPT
                          !.pc = IF review_approves(verdict)
                                 THEN "apply" ELSE "tests"]
    /\ UNCHANGED notAutogenVars

\* Lines 112-113: the patch is applied and the status of the GitTool sent.
AutogenApply ==
    /\ autogen.pc = "apply"
    /\ \E success \in {"True", "False"} :
         sent' = Append(sent, Message("GitTool", "status", "absent", "absent",
                                      success))
    /\ autogen' = [autogen EXCEPT !.pc = "tests"]
    /\ UNCHANGED notAutogenVars

AutogenLocals(p, n) ==
    [pc |-> p, max_iterations |-> n, iteration |-> 0,
     tests_passing |-> FALSE, returned |-> "none"]

AutogenIdle ==
    /\ autogen = AutogenLocals("idle", AUTOGEN_MAX_ITERATIONS)
    /\ sent = <<>>

MainInit ==
    /\ config_file \in ConfigFiles
    /\ invocation = 1
    /\ pc = "start"
    /\ iteration = 0
    /\ current_failure = <<>>
    /\ patch_result = ""
    /\ branch_name = <<>>
    /\ now = 0
    /\ start_time = 0
    /\ iteration_start_time = 0
    /\ metrics = <<>>
    /\ metrics_file = <<>>
    /\ log = <<>>
    /\ exit_code = -1
    /\ escaped = "none"
    /\ outcome = [state |-> "RUNNING", reason |-> "none"]
    /\ previous = [reason |-> "none", exit_code |-> -1, escaped |-> "none"]

Init ==
    /\ MainInit
    /\ RunnerIdle
    /\ GeneratorIdle
    /\ ApplierIdle
    /\ NamingIdle
    /\ SupervisorIdle
    /\ AutogenIdle

Next ==
    \/ MainStart
    \/ RunTests
    \/ GeneratePatch
    \/ CreateBranch
    \/ ValidatePatch
    \/ ApplyPatch
    \/ Commit
    \/ Retest
    \/ Push
    \/ OpenPR

\* One invocation of main.
Spec == Init /\ [][Next]_vars

\* One invocation of main in which every call main makes on a collaborator
\* (test run, backend call, VCS command, file access) returns, so that the
\* statement main is at is eventually executed.
SpecLive == Spec /\ WF_vars(Next)

NextSupervised ==
    \/ Next
    \/ Restart

\* Consecutive invocations of main on the same metrics file, as the
\* supervisor makes them.
SpecSupervised == Init /\ [][NextSupervised]_vars

\* main before it is started, under the default configuration.
MainIdle ==
    /\ MainInit
    /\ config_file = Config(1, PrefixDevAgent, "true")

InitRunner ==
    /\ MainIdle
    /\ GeneratorIdle
    /\ ApplierIdle
    /\ NamingIdle
    /\ SupervisorIdle
    /\ AutogenIdle
    /\ \E c \in RunnerCalls :
         /\ command = c.command
         /\ repo_files = c.repo_files
         /\ process = c.process
    /\ rt_pc = "precheck"
    /\ spawned = <<>>
    /\ bytecode = {}
    /\ test_result = <<>>

NextRunner ==
    \/ FastSyntaxPrecheck
    \/ RunCommand
    \/ ClassifyRun

\* One call of run_tests.
SpecRunner == InitRunner /\ [][NextRunner]_vars

InitGenerator ==
    /\ MainIdle
    /\ RunnerIdle
    /\ ApplierIdle
    /\ NamingIdle
    /\ SupervisorIdle
    /\ AutogenIdle
    /\ \E c \in GeneratorCalls :
         /\ gen_entry = c.entry
         /\ max_retries = c.max_retries
         /\ test_failure = c.test_failure
         /\ source_file = c.source_file
    /\ gen_pc = "read"
    /\ attempt = 0
    /\ original_prompt = <<"None">>
    /\ llm_calls = <<>>
    /\ patch = NoPatch

NextGenerator ==
    \/ ReadSource
    \/ Attempt
    \/ Fallback

\* One call of generate_patch or generate_patch_with_retry.
SpecGenerator == InitGenerator /\ [][NextGenerator]_vars

InitApplier ==
    /\ MainIdle
    /\ RunnerIdle
    /\ GeneratorIdle
    /\ NamingIdle
    /\ SupervisorIdle
    /\ AutogenIdle
    /\ \E c \in ApplierCalls :
         /\ original_source = c.original_source
         /\ diff_content = c.diff_content
         /\ edit = c.edit
    /\ ap_pc = "call"
    /\ modified_source = ReturnedText(<<>>)

NextApplier == ApplyDiff

\* One call of apply_diff_to_source.
SpecApplier == InitApplier /\ [][NextApplier]_vars

InitNaming ==
    /\ MainIdle
    /\ RunnerIdle
    /\ GeneratorIdle
    /\ ApplierIdle
    /\ SupervisorIdle
    /\ AutogenIdle
    /\ naming \in Namings
    /\ created_branch = <<>>

NextNaming ==
    \/ NameBranch
    \/ NameNextBranch

\* The branch names computed in the iterations of one invocation of main.
SpecNaming == InitNaming /\ [][NextNaming]_vars

\* supervisor.py lines 87-107 with dev_agent.py lines 340-383: the next
\* attempt at a subtask starts dev_agent.py again with the same command in
\* the same repository, so main starts at iteration 0; its test run may
\* report any test, and the name for it is handed to create_branch.
NameRetryBranch ==
    /\ created_branch # <<>>
    /\ naming.attempt < MaxSubtaskRetries
    /\ \E t \in TestNames :
         /\ naming' = [naming EXCEPT !.test_name = t, !.iteration = 0,
                                     !.attempt = naming.attempt + 1,
                                     !.fixed = Append(naming.fixed, t)]
         /\ created_branch' =
              Append(created_branch,
                     BranchNameFor(naming.branch_prefix, t, 0))
    /\ UNCHANGED notNamingVars

InitRetry ==
    /\ InitNaming
    /\ naming.iteration = 0

NextRetry ==
    \/ NameBranch
    \/ NameRetryBranch

\* The first branch of every attempt the supervisor makes at one subtask.
SpecRetry == InitRetry /\ [][NextRetry]_vars

InitSupervisor ==
    /\ MainIdle
    /\ RunnerIdle
    /\ GeneratorIdle
    /\ ApplierIdle
    /\ NamingIdle
    /\ AutogenIdle
    /\ story \in Stories
    /\ dry_run \in BOOLEAN
    /\ sup_max_retries \in 0..MaxSubtaskRetries
    /\ sup_pc = "run"
    /\ subtasks = <<>>
    /\ subtask_num = 0
    /\ sup_attempt = 0
    /\ dev_agent_result = <<>>
    /\ invocations = <<>>
    /\ emitted = <<>>
    /\ approval = <<>>
    /\ run_code = -1

NextSupervisor ==
    \/ SupervisorRun
    \/ InvokeDevAgent

\* One call of Supervisor.run.
SpecSupervisor == InitSupervisor /\ [][NextSupervisor]_vars

InitAutogen ==
    /\ MainIdle
    /\ RunnerIdle
    /\ GeneratorIdle
    /\ ApplierIdle
    /\ NamingIdle
    /\ SupervisorIdle
    /\ \E n \in 0..MaxIterations : autogen = AutogenLocals("tests", n)
    /\ sent = <<>>

NextAutogen ==
    \/ AutogenRunTests
    \/ AutogenPatch
    \/ AutogenReview
    \/ AutogenApply

\* One call of run_autogen_loop.
SpecAutogen == InitAutogen /\ [][NextAutogen]_vars

\* ------------------------------------------------------- reading the log
Done == pc = "done"

Calls(op) == {i \in DOMAIN log : log[i].op = op}

Count(op) == Cardinality(Calls(op))

IsStartRun(e) == e.op = "run_tests" /\ e.line = 346

IsRetest(e) == e.op = "run_tests" /\ e.line = 400

\* Every test run so far was non-passing, the runs at the top of an
\* iteration with a non-empty failure list.
AllRunsFail ==
    \A i \in DOMAIN log :
        log[i].op = "run_tests" =>
            /\ ~log[i].res.passed
            /\ IsStartRun(log[i]) => log[i].res.failures # <<>>

\* generate_patch, create_branch, validate_patch and apply_patch succeeded
\* whenever they were called.
ToolsSucceed ==
    \A i \in DOMAIN log :
        /\ log[i].op = "generate_patch" => log[i].res # "PatchGenerationError"
        /\ log[i].op \in {"create_branch", "validate_patch", "apply_patch"}
              => log[i].res = "True"

\* ------------------------------------------------------------------ claims

\* C1 - Budget respected: with max_iterations = N, when every test run is
\* non-passing with failures and generation, branch creation, validation
\* and application always succeed, main calls generate_patch exactly N
\* times, never calls push and ends EXHAUSTED with exit code 1.
C1_BudgetRespected ==
    (Done /\ ~config_file.raises /\ AllRunsFail /\ ToolsSucceed) =>
        /\ Count("generate_patch") = max_iterations
        /\ Count("push") = 0
        /\ exit_code = 1
        /\ escaped = "none"
        /\ outcome.state = "EXHAUSTED"

C1_Witness ==
    /\ Done /\ ~config_file.raises /\ AllRunsFail /\ ToolsSucceed
    /\ max_iterations >= 2
    /\ Count("generate_patch") = max_iterations
    /\ exit_code = 1

\* C2 - Pass-through: a passing test run at the top of an iteration is the
\* last call of the invocation, which exits 0 with no generate_patch,
\* create_branch, validate_patch, apply_patch or commit in that iteration;
\* when it is the very first test run, nothing else was called at all.
C2_PassThrough ==
    \A i \in DOMAIN log :
        (IsStartRun(log[i]) /\ log[i].res.passed) =>
            /\ Done
            /\ exit_code = 0
            /\ escaped = "none"
            /\ \A j \in DOMAIN log :
                   (j > i \/ log[j].iter = log[i].iter) =>
                       log[j].op \notin {"generate_patch", "create_branch",
                                         "validate_patch", "apply_patch",
                                         "commit", "push", "open_pr"}
            /\ (i = 1 => Len(log) = 1)

C2_Witness ==
    /\ Done
    /\ Len(log) = 1
    /\ IsStartRun(log[1]) /\ log[1].res.passed
    /\ exit_code = 0

\* The single-fix scenario: the first test run reports a failure, every
\* tool call succeeds and the retest passes.
SingleFixScenario ==
    /\ Done
    /\ Len(log) >= 7
    /\ IsStartRun(log[1]) /\ ~log[1].res.passed /\ log[1].res.failures # <<>>
    /\ ToolsSucceed
    /\ IsRetest(log[7]) /\ log[7].res.passed

\* F: the failure the first test run reports.
FirstFailure == log[1].res.failures[1]

\* The name main works under: "discovery_error" when the first run is a
\* discovery error (a single failure whose name is its error text).
WorkingName ==
    IF log[1].res.status = "discovery_error" THEN DISCOVERY_ERROR
    ELSE FirstFailure.test_name

SingleFixCalls ==
    /\ [i \in 1..7 |-> log[i].op] =
          <<"run_tests", "generate_patch", "create_branch", "validate_patch",
            "apply_patch", "commit", "run_tests">>
    /\ \E i \in 8..Len(log) : log[i].op = "push"
    /\ \A op \in {"generate_patch", "create_branch", "validate_patch",
                   "apply_patch", "commit", "push"} : Count(op) = 1
    /\ Count("run_tests") = 2
    /\ log[4].arg = log[2].res
    /\ log[5].arg = log[2].res
    /\ exit_code = 0
    /\ escaped = "none"

\* C3 as stated - Single fix: generate_patch is called for F itself, the
\* branch is named '<prefix>_<F.test_name>' and the commit message
\* references F.test_name.
C3_Original ==
    SingleFixScenario =>
        /\ SingleFixCalls
        /\ log[2].arg = FirstFailure
        /\ log[3].arg = config_file.branch_prefix \o <<"_">> \o FirstFailure.test_name
        /\ Contains(log[6].arg, FirstFailure.test_name)

\* C3 - Single fix, amended: in the single-fix scenario main makes, in this
\* order, exactly one generate_patch for F under the working name T (T is
\* "discovery_error" for a discovery error, F.test_name otherwise), one
\* create_branch named the sanitized '<prefix>_<T>', one validate_patch and
\* one apply_patch of the generated diff, one commit whose message
\* references T, one retest and one push, and exits with code 0.
C3_SingleFix ==
    SingleFixScenario =>
        /\ SingleFixCalls
        /\ log[2].arg = [FirstFailure EXCEPT !.test_name = WorkingName]
        /\ log[3].arg = _sanitize_branch_name(
                           config_file.branch_prefix \o <<"_">> \o WorkingName)
        /\ Contains(log[6].arg, WorkingName)

C3_Witness ==
    /\ SingleFixScenario
    /\ FirstFailure.test_name = NameInClass
    /\ log[3].arg # config_file.branch_prefix \o <<"_">> \o NameInClass

\* C4 - Validation rejection: when validate_patch returns False or
\* apply_patch fails, main exits with code 2 at once, and neither commit nor
\* push is called in that iteration or afterwards.
Rejected(e) ==
    \/ e.op = "validate_patch" /\ e.res = "False"
    \/ e.op = "apply_patch" /\ e.res = "PatchApplicationError"

C4_ValidationRejection ==
    \A i \in DOMAIN log :
        Rejected(log[i]) =>
            /\ Done
            /\ exit_code = 2
            /\ escaped = "none"
            /\ \A j \in DOMAIN log :
                   (j > i \/ log[j].iter = log[i].iter) =>
                       log[j].op \notin {"commit", "push"}

C4_Witness ==
    /\ Done
    /\ exit_code = 2
    /\ \E i \in DOMAIN log : Rejected(log[i]) /\ log[i].iter >= 1
    /\ Count("commit") >= 1

\* ---- exit statuses
LastCall == log[Len(log)]

GenerationFailed ==
    /\ log # <<>>
    /\ LastCall.op = "generate_patch"
    /\ LastCall.res = "PatchGenerationError"

PatchRejected == log # <<>> /\ Rejected(LastCall)

\* C5 as stated - Exit-code mapping: exit code 2 iff patch validation or
\* application failed, 1 iff the budget was exhausted or the configuration
\* could not be loaded, 0 iff main converged or had nothing to do.
C5_ExitCodeMapping ==
    Done =>
        /\ exit_code = 2 <=> PatchRejected
        /\ exit_code = 1 <=>
              (config_file.raises \/ outcome.state = "EXHAUSTED")
        /\ exit_code = 0 <=> outcome.state = "CONVERGED"

BoundaryFailures ==
    {"generation_failed", "patch_validation_failed", "patch_application_failed"}

\* C6 as stated - Distinguishable boundary failures: two invocations that
\* end in different ones of generation failure, validation failure and
\* application failure end with different exit statuses.
C6_Original ==
    (/\ Done
     /\ outcome.reason \in BoundaryFailures
     /\ previous.reason \in BoundaryFailures
     /\ outcome.reason # previous.reason)
        => <<exit_code, escaped>> # <<previous.exit_code, previous.escaped>>

\* C6 - amended: a generation failure ends main with an exit status (an
\* escaping PatchGenerationError, no sys.exit) different from that of a
\* validation or an application failure; validation failure and
\* application failure both end main with exit code 2.
C6_GenerationDistinguishable ==
    Done =>
        /\ (GenerationFailed /\ previous.reason \in
                {"patch_validation_failed", "patch_application_failed"})
              => <<exit_code, escaped>> # <<previous.exit_code, previous.escaped>>
        /\ (PatchRejected /\ previous.reason = "generation_failed")
              => <<exit_code, escaped>> # <<previous.exit_code, previous.escaped>>
        /\ GenerationFailed => escaped = "PatchGenerationError"
        /\ PatchRejected => (exit_code = 2 /\ escaped = "none")

C6_Witness ==
    /\ Done
    /\ GenerationFailed
    /\ previous.reason = "patch_application_failed"
    /\ previous.exit_code = 2

\* C7 - Push gating: push is called at most once in an invocation, only
\* after the retest of the same iteration passed, and the invocation then
\* exits 0; an invocation that exits 1 or 2 never called push.
C7_PushGating ==
    /\ Count("push") <= 1
    /\ \A i \in Calls("push") :
          \E j \in 1..(i - 1) :
              /\ IsRetest(log[j]) /\ log[j].res.passed
              /\ log[j].iter = log[i].iter
              /\ \A k \in (j + 1)..(i - 1) : log[k].op # "run_tests"
    /\ (Done /\ Count("push") = 1) => exit_code = 0
    /\ (Done /\ exit_code \in {1, 2}) => Count("push") = 0

C7_Witness ==
    /\ Done
    /\ exit_code = 0
    /\ \E i \in Calls("push") : log[i].iter >= 1

RetestPassed == \E i \in DOMAIN log : IsRetest(log[i]) /\ log[i].res.passed

PushReturnedTrue == \E i \in Calls("push") : log[i].res = "True"

\* C8 as stated - Auto-PR: when the retest passes, push is called and, if
\* git.auto_pr is true, open_pr is called exactly once before exit 0; with
\* auto_pr false or absent open_pr is never called.
C8_Original ==
    /\ (Done /\ RetestPassed) =>
          /\ Count("push") = 1
          /\ exit_code = 0
          /\ config_file.auto_pr = "true" => Count("open_pr") = 1
    /\ config_file.auto_pr # "true" => Count("open_pr") = 0

\* C8 - Auto-PR, amended: when the retest passes, push is called and, if
\* git.auto_pr is true and push returned True, open_pr is called exactly
\* once, after push, before exit 0; if push returned False, or auto_pr is
\* false or absent, open_pr is never called.
C8_AutoPR ==
    /\ (Done /\ RetestPassed) =>
          /\ Count("push") = 1
          /\ exit_code = 0
          /\ (config_file.auto_pr = "true" /\ PushReturnedTrue) =>
                /\ Count("open_pr") = 1
                /\ LastCall.op = "open_pr"
                /\ log[Len(log) - 1].op = "push"
    /\ ~PushReturnedTrue => Count("open_pr") = 0
    /\ config_file.auto_pr # "true" => Count("open_pr") = 0

C8_Witness ==
    /\ Done
    /\ RetestPassed
    /\ config_file.auto_pr = "true"
    /\ PushReturnedTrue
    /\ Count("open_pr") = 1

\* ---- metrics
IterationsUsed == Cardinality({i \in DOMAIN log : IsStartRun(log[i])})

\* C9 as stated - Metrics on terminal outcome: an invocation that ends
\* CONVERGED (exit 0) or EXHAUSTED (exit 1 by budget) has appended exactly
\* one record and saved it, with success iff CONVERGED and iterations
\* equal to the iterations used.
C9_MetricsOnTerminal ==
    (Done /\ ~config_file.raises /\ exit_code \in {0, 1}) =>
        /\ Len(metrics) = 1
        /\ Count("save_metrics") = 1
        /\ metrics_file # <<>>
        /\ metrics_file[Len(metrics_file)] = metrics[1]
        /\ metrics[1].success = (exit_code = 0)
        /\ metrics[1].iterations = IterationsUsed

IsPrefix(a, b) == Len(a) <= Len(b) /\ SubSeq(b, 1, Len(a)) = a

\* C10 as stated - Persisted metrics are append-only: every step leaves
\* the records already in the metrics file in place, unchanged and in
\* order; a save only adds records at the end.
C10_AppendOnly == [][IsPrefix(metrics_file, metrics_file')]_vars

\* ------------------------------------------------------- claims: run_tests
Returned == rt_pc = "returned"

\* C11 - Non-empty failures: every result run_tests returns with
\* passed = false carries a non-empty failure list, whichever path produced
\* it (syntax pre-check, timeout or command not found, discovery error,
\* FAILED markers, the synthesized 'unknown' failure).
C11_NonEmptyFailures ==
    (Returned /\ ~test_result[1].passed) => test_result[1].failures # <<>>

\* The run was classified by lines 113-145: the pre-check found nothing and
\* the command ran to completion.
Classified ==
    /\ Returned
    /\ ~fast_syntax_precheck(repo_files).found
    /\ process.kind = "completed"

Output == process.stdout \o process.stderr

PassingCode == process.returncode \in {0, PYTEST_NO_TESTS_EXIT_CODE}

\* The output matches one of the discovery-error patterns.
DiscoveryPattern == SyntaxEnds(Output) # {} \/ ImportStarts(Output) # {}

\* A line of the form `FAILED <file>::<test> ...`.
IsMarker(line) ==
    /\ StartsWith(line, FAILED_MARK)
    /\ Len(split(line)) >= 2
    /\ Contains(split(line)[2], COLONS)

\* The FAILED markers of the output, in output order.
Markers == SelectSeq(splitlines(Output), IsMarker)

\* f is a discovery-error failure: named by its own error message, which
\* starts with the kind of the error.
IsDiscoveryFailure(f) ==
    /\ f.test_name = f.error_output
    /\ \/ StartsWith(f.test_name, SYNTAX_KIND)
       \/ StartsWith(f.test_name, MODULE_NOT_FOUND)
       \/ StartsWith(f.test_name, IMPORT_ERROR)
       \/ f.test_name = IMPORT_FALLBACK

\* C12 - Classification priority: a completed run is classified by the
\* first rule that matches: (1) exit code 0 or 5 gives passed with no
\* failures; (2) otherwise output matching a discovery-error pattern gives a
\* single discovery-error failure, FAILED markers or not; (3) otherwise one
\* failure per FAILED marker; (4) otherwise one synthesized 'unknown'
\* failure.
C12_ClassificationPriority ==
    Classified =>
        LET r == test_result[1]
        IN IF PassingCode
           THEN r.passed /\ r.failures = <<>>
           ELSE IF DiscoveryPattern
           THEN /\ ~r.passed
                /\ Len(r.failures) = 1
                /\ IsDiscoveryFailure(r.failures[1])
           ELSE IF Markers # <<>>
           THEN /\ ~r.passed
                /\ Len(r.failures) = Len(Markers)
                /\ \A i \in DOMAIN r.failures :
                     /\ ~IsDiscoveryFailure(r.failures[i])
                     /\ r.failures[i].file_path # UNKNOWN
           ELSE /\ ~r.passed
                /\ r.failures = <<TestFailure(UNKNOWN, UNKNOWN, Output)>>

\* A non-passing run whose output holds a discovery error and two FAILED
\* markers was classified as the discovery error.
C12_Witness ==
    /\ Classified
    /\ ~PassingCode
    /\ DiscoveryPattern
    /\ Len(Markers) = 2
    /\ Len(test_result[1].failures) = 1
    /\ IsDiscoveryFailure(test_result[1].failures[1])

\* The identifier of a marker line: the text between "FAILED " and the next
\* blank.
Identifier(line) ==
    LET from == Len(FAILED_MARK) + 1
        blanks == {i \in from..Len(line) : IsSpace(line[i])}
    IN SubSeq(line, from, IF blanks = {} THEN Len(line) ELSE Least(blanks) - 1)

MarkerIds == [i \in DOMAIN Markers |-> Identifier(Markers[i])]

DistinctIds ==
    \A i, j \in DOMAIN MarkerIds : i # j => MarkerIds[i] # MarkerIds[j]

\* The run went through _parse_pytest_failures (lines 143-145).
Parsed == Classified /\ ~PassingCode /\ ~DiscoveryPattern

\* C13 - Failure extraction completeness: for non-passing output holding k
\* marker lines `FAILED <file>::<test> ...` with k distinct identifiers,
\* _parse_pytest_failures yields exactly k failures, in output order, the
\* i-th with file_path the text before the first "::" of the i-th
\* identifier and test_name the text after it.
C13_ExtractionComplete ==
    (Parsed /\ Markers # <<>> /\ DistinctIds) =>
        LET fs == test_result[1].failures
        IN /\ Len(fs) = Len(Markers)
           /\ \A i \in DOMAIN Markers :
                LET id == MarkerIds[i]
                    k == Least({j \in 1..(Len(id) - 1) : SubSeq(id, j, j + 1) = COLONS})
                IN /\ fs[i].file_path = SubSeq(id, 1, k - 1)
                   /\ fs[i].test_name = SubSeq(id, k + 2, Len(id))
                   /\ fs[i].file_path \o COLONS \o fs[i].test_name = id

\* Two distinct markers, the second with a class-qualified test, were
\* parsed into two failures.
C13_Witness ==
    /\ Parsed
    /\ Len(Markers) = 2
    /\ DistinctIds
    /\ Len(test_result[1].failures) = 2
    /\ Contains(test_result[1].failures[2].test_name, COLONS)
    /\ test_result[1].failures[1].test_name # test_result[1].failures[2].test_name

\* Indices of the files of the repository that do not compile.
Offending == {i \in DOMAIN repo_files : repo_files[i].compile_error # <<>>}

\* C14 - Syntax pre-check short-circuit: when some *.py file of the
\* repository does not compile, the test command is never spawned in that
\* call, and run_tests returns a non-passing result with exactly one
\* failure, which carries the relative path of the first offending file and
\* its error message.
C14_PrecheckShortCircuit ==
    Offending # {} =>
        /\ spawned = <<>>
        /\ rt_pc # "classify"
        /\ Returned =>
             LET first == repo_files[Least(Offending)]
                 r == test_result[1]
             IN /\ ~r.passed
                /\ Len(r.failures) = 1
                /\ r.failures[1].file_path = first.path
                /\ r.failures[1].error_output = first.compile_error

\* run_tests returned for a repository with two offending files behind a
\* good one, and a command that would have completed.
C14_Witness ==
    /\ Returned
    /\ Cardinality(Offending) = 2
    /\ Least(Offending) > 1
    /\ process.kind = "completed"
    /\ spawned = <<>>
    /\ test_result[1].failures[1].file_path = repo_files[Least(Offending)].path

\* ----------------------------------------------- claims: discovery errors
\* The calls an iteration makes after its test run, in order.
Pipeline ==
    <<"generate_patch", "create_branch", "validate_patch", "apply_patch",
      "commit", "run_tests">>

\* The call returned what lets main go on to the next call.
Succeeded(e) ==
    CASE e.op = "generate_patch" -> e.res # "PatchGenerationError"
      [] e.op \in {"create_branch", "validate_patch", "apply_patch"} ->
            e.res = "True"
      [] OTHER -> TRUE

InPipeline(e) == \E k \in DOMAIN Pipeline : Pipeline[k] = e.op

\* The pipeline calls that follow log[i] in the iteration of log[i].
Steps(i) ==
    LET after == [k \in 1..(Len(log) - i) |-> log[i + k]]
        Mine(e) == e.iter = log[i].iter /\ InPipeline(e)
    IN SelectSeq(after, Mine)

\* After the test run log[i], main calls the generator, creates the
\* branch, validates, applies, commits and retests, in this order, going
\* on exactly as long as each call succeeds.
PipelineAfter(i) ==
    LET st == Steps(i)
    IN /\ Len(st) <= Len(Pipeline)
       /\ \A k \in DOMAIN st : st[k].op = Pipeline[k]
       /\ \A k \in 1..(Len(st) - 1) : Succeeded(st[k])
       /\ Len(st) = Len(Pipeline) => IsRetest(st[Len(st)])
       /\ (Done /\ Len(st) < Len(Pipeline)) =>
            Len(st) >= 1 /\ ~Succeeded(st[Len(st)])

IsDiscoveryRun(e) == IsStartRun(e) /\ e.res.status = "discovery_error"

IsAssertionRun(e) ==
    /\ IsStartRun(e)
    /\ e.res.status # "discovery_error"
    /\ ~e.res.passed
    /\ e.res.failures # <<>>

\* C15 - Discovery error is fixable: when the test run at the top of an
\* iteration reports a discovery error, main does not exit at that step;
\* its next call is generate_patch for a failure that carries the
\* offending file path and the error message, and the iteration goes on
\* through branch creation, validation, application, commit and retest
\* under the same rule as after an assertion failure.
C15_DiscoveryFixable ==
    \A i \in DOMAIN log :
        /\ IsDiscoveryRun(log[i]) =>
             /\ i = Len(log) =>
                  pc = "generate" /\ exit_code = -1 /\ escaped = "none"
             /\ i < Len(log) =>
                  /\ log[i + 1].op = "generate_patch"
                  /\ log[i + 1].iter = log[i].iter
                  /\ log[i + 1].arg.file_path = log[i].res.file_path
                  /\ log[i + 1].arg.error_output = log[i].res.error
             /\ PipelineAfter(i)
        /\ IsAssertionRun(log[i]) => PipelineAfter(i)

\* An iteration that started with a discovery error ran the whole pipeline
\* and its retest passed.
C15_Witness ==
    /\ Done
    /\ exit_code = 0
    /\ \E i \in DOMAIN log :
         /\ IsDiscoveryRun(log[i])
         /\ log[i].res.file_path = "broken.py"
         /\ Len(Steps(i)) = Len(Pipeline)
         /\ Steps(i)[Len(Pipeline)].res.passed

\* ------------------------------------------- claims: the patch generator
Generated == gen_pc = "done"

Readable == source_file = "readable"

\* Every backend call returned a candidate that failed the syntax check.
AllCandidatesInvalid ==
    \A i \in DOMAIN llm_calls :
        ~llm_calls[i].outcome.raises /\ ~llm_calls[i].outcome.parses

\* Every backend call raised.
AllCallsFailed == \A i \in DOMAIN llm_calls : llm_calls[i].outcome.raises

\* C16 - Generation retry bound: with a readable source file the generator
\* makes at most max_retries + 1 backend calls, 3 under the default
\* max_retries = 2 that generate_patch uses; when every candidate fails
\* the syntax check, or every backend call fails, it makes exactly
\* max_retries + 1 calls and raises PatchGenerationError, returning no
\* patch.
C16_RetryBound ==
    Readable =>
        /\ Len(llm_calls) <= max_retries + 1
        /\ gen_entry = "generate_patch" => Len(llm_calls) <= 3
        /\ (Generated /\ (AllCandidatesInvalid \/ AllCallsFailed)) =>
             /\ Len(llm_calls) = max_retries + 1
             /\ patch.kind = "PatchGenerationError"
             /\ patch.diff_content = ""

\* generate_patch gave up after three candidates that did not parse.
C16_Witness ==
    /\ Generated
    /\ Readable
    /\ gen_entry = "generate_patch"
    /\ AllCandidatesInvalid
    /\ Len(llm_calls) = 3
    /\ patch.kind = "PatchGenerationError"

\* C17 - Source unavailable: when the failing file is missing or cannot be
\* decoded, generate_patch does not enter the retry loop; it calls the
\* backend exactly once and returns what the backend returned without a
\* syntax check, and it raises PatchGenerationError exactly when that one
\* call raised.
C17_SourceUnavailable ==
    (gen_entry = "generate_patch" /\ ~Readable) =>
        /\ Len(llm_calls) <= 1
        /\ attempt = 0
        /\ Generated =>
             /\ Len(llm_calls) = 1
             /\ llm_calls[1].error_output = <<test_failure.error_output>>
             /\ (patch.kind = "PatchGenerationError") <=> llm_calls[1].outcome.raises
             /\ ~llm_calls[1].outcome.raises =>
                  patch = PatchResult(llm_calls[1].outcome.diff)

\* With an undecodable file, generate_patch returned a diff that does not
\* parse.
C17_Witness ==
    /\ Generated
    /\ gen_entry = "generate_patch"
    /\ source_file = "UnicodeDecodeError"
    /\ Len(llm_calls) = 1
    /\ ~llm_calls[1].outcome.raises
    /\ ~llm_calls[1].outcome.parses
    /\ patch.kind = "PatchResult"

\* ------------------------------------------ claims: apply_diff_to_source
Applied == ap_pc = "returned"

\* C18 - Round-trip patch application: for an original source and the
\* single-hunk unified diff computed from it to a new content, the hunk
\* starting at any line of the original, apply_diff_to_source returns the
\* new content exactly.
C18_RoundTrip ==
    (Applied /\ edit.kind = "computed") =>
        modified_source =
            ReturnedText(Text(NewLines(splitlines(original_source), edit)))

\* The lines of the diff that start with "@@".
HeaderLines ==
    SelectSeq(splitlines(diff_content), LAMBDA l : StartsWith(l, HUNK_MARK))

\* The start of the old range the first "@@" line names: its second word
\* without the leading "-", up to the comma.
OldRangeStart ==
    LET words == split(HeaderLines[1])
    IN IF Len(words) >= 2 THEN BeforeComma(Tail(words[2])) ELSE <<>>

\* The diff has no valid hunk header: no line starts with "@@", or the old
\* range of the "@@" line does not start with a number.
NoValidHunkHeader ==
    HeaderLines = <<>> \/ ~IsIntLiteral(OldRangeStart)

\* C19 - No valid hunk header: for a diff without a valid hunk header,
\* apply_diff_to_source returns the original source unchanged and does not
\* raise.
C19_NoValidHeader ==
    (Applied /\ NoValidHunkHeader) =>
        modified_source = ReturnedText(original_source)

\* ------------------------------------------------ claims: branch names
Named == created_branch # <<>>

HasChar(s, c) == \E i \in DOMAIN s : s[i] = c

\* s holds no colon and no space.
Permitted(s) == ~HasChar(s, ":") /\ ~HasChar(s, " ")

\* The branch name is free of colons and spaces and starts with the
\* configured prefix as configured.
SanitizedWithPrefix ==
    /\ Permitted(created_branch[1])
    /\ StartsWith(created_branch[1], naming.branch_prefix \o <<"_">>)

\* C20 as stated - for every configured prefix and every test identifier
\* holding colons, double colons or spaces, the branch name passed to
\* create_branch holds no colon and no space and starts with the
\* configured prefix verbatim.
C20_Original ==
    (Named /\ ~Permitted(naming.test_name)) => SanitizedWithPrefix

\* C20 - Branch name sanitization: for every configured prefix that holds
\* no colon and no space itself, and every test identifier (with colons,
\* double colons or spaces, or without), the branch name passed to
\* create_branch holds no colon and no space and starts with the
\* configured prefix verbatim.
C20_BranchSanitized ==
    (Named /\ Permitted(naming.branch_prefix)) => SanitizedWithPrefix

\* A node id with double colons and a space was sanitized behind a prefix
\* that holds an underscore, in a later iteration.
C20_Witness ==
    /\ Named
    /\ naming.branch_prefix = PrefixUnderscore
    /\ naming.test_name = NameNodeId
    /\ naming.iteration > 0
    /\ SanitizedWithPrefix

\* ------------------------------------------------- reading the supervisor
\* The dev_agent.py processes started so far, by position.
Invoked == 1..Len(invocations)

\* Invocation n was the last attempt max_retries allows and did not
\* complete its subtask.
Exhausted(n) ==
    /\ ~invocations[n].completed
    /\ invocations[n].attempt = sup_max_retries

\* C21: Supervisor.run starts dev-agent for subtask k only once every
\* subtask before k has a completed attempt, so the invocations are in index
\* order; an invocation that exhausts the retries of its subtask is the last
\* one ever made, and run has then returned a non-zero code.
C21_StrictOrder ==
    /\ \A n \in Invoked :
         /\ \A j \in 1..(invocations[n].subtask_num - 1) :
              /\ subtasks[j].status = "completed"
              /\ \E m \in 1..(n - 1) :
                   /\ invocations[m].subtask_num = j
                   /\ invocations[m].completed
         /\ \A m \in 1..(n - 1) :
              invocations[m].subtask_num <= invocations[n].subtask_num
    /\ \A n \in Invoked :
         Exhausted(n) => /\ n = Len(invocations)
                         /\ sup_pc = "returned"
                         /\ run_code > 0

\* The second of three subtasks exhausts its retries after a retry.
C21_Witness ==
    /\ Len(subtasks) = 3
    /\ sup_max_retries >= 1
    /\ \E n \in Invoked : Exhausted(n) /\ invocations[n].subtask_num = 2
    /\ subtasks[3].status = "pending"
    /\ run_code = 1

\* The invocations made for subtask k.
Attempts(k) == {n \in Invoked : invocations[n].subtask_num = k}

\* C22: a subtask is attempted at most max_retries + 1 times; no attempt
\* follows a successful attempt of the same subtask; and once run has
\* returned, a subtask none of whose attempts succeeded was attempted exactly
\* max_retries + 1 times and is reported failed: it is not completed, the
\* approval check is a rejection and run returned 1.
C22_RetryBound ==
    \A k \in 1..Len(subtasks) :
        /\ Cardinality(Attempts(k)) <= sup_max_retries + 1
        /\ \A n \in Attempts(k) :
             invocations[n].completed => \A m \in Attempts(k) : m <= n
        /\ ( /\ sup_pc = "returned"
             /\ Attempts(k) # {}
             /\ \A n \in Attempts(k) : ~invocations[n].completed )
           => /\ Cardinality(Attempts(k)) = sup_max_retries + 1
              /\ subtasks[k].status # "completed"
              /\ approval # <<>>
              /\ approval[1].status = "rejected"
              /\ approval[1].failed_count >= 1
              /\ run_code = 1

\* With two retries, one subtask fails three times and another succeeds at
\* its second attempt.
C22_Witness ==
    /\ sup_max_retries = 2
    /\ sup_pc = "returned"
    /\ \E k \in 1..Len(subtasks) :
         /\ Cardinality(Attempts(k)) = 3
         /\ \A n \in Attempts(k) : ~invocations[n].completed
    /\ \E k \in 1..Len(subtasks) :
         /\ Cardinality(Attempts(k)) = 2
         /\ \E n \in Attempts(k) : invocations[n].completed

\* The three outcomes of a dev-agent process that count as success.
SuccessOutcome(r) ==
    \/ r.returncode = 0
    \/ \E k \in 1..Len(r.stderr) : At(r.stderr, k, NO_TEST_FAILURES)
    \/ /\ \E k \in 1..Len(r.stderr) : At(r.stderr, k, PERMISSION_ERROR)
       /\ \E k \in 1..Len(r.stderr) : At(r.stderr, k, VENV)

\* C23: an attempt sets the status of its subtask to completed exactly when
\* the dev-agent process ended with exit code 0, or with 'No test failures
\* detected' in its stderr, or with both 'PermissionError' and 'venv' in its
\* stderr; after any other outcome every status is what it was, and either
\* the attempt counter is one higher or the retries are used up and run
\* returns 1.
C23_SuccessOutcomes ==
    [][Len(invocations') = Len(invocations) + 1
       => LET r == dev_agent_result'[1]
          IN /\ (subtasks'[subtask_num].status = "completed")
                  <=> SuccessOutcome(r)
             /\ subtasks[subtask_num].status = "pending"
             /\ ~SuccessOutcome(r)
                  => /\ subtasks' = subtasks
                     /\ \/ /\ sup_attempt < sup_max_retries
                           /\ sup_attempt' = sup_attempt + 1
                           /\ subtask_num' = subtask_num
                           /\ sup_pc' = "execute"
                        \/ /\ sup_attempt = sup_max_retries
                           /\ run_code' = 1]_vars

\* After a failed first attempt, a process that exits with code 1 and a
\* permission error naming the venv completes the subtask.
C23_Witness ==
    /\ invocations # <<>>
    /\ invocations[Len(invocations)].attempt >= 1
    /\ invocations[Len(invocations)].completed
    /\ dev_agent_result[1].returncode = 1
    /\ dev_agent_result[1].stderr = STDERR_PERMISSION_VENV
    /\ subtasks[invocations[Len(invocations)].subtask_num].status = "completed"

\* C24: every approval check run generates is 'approved' exactly when the
\* number of completed subtasks equals the number of subtasks, and 'rejected'
\* otherwise; and when run has returned 0 outside dry-run mode, every subtask
\* is completed and the plan it printed carries an approval that is
\* 'approved'.
C24_ApprovalSummary ==
    /\ approval # <<>>
         => LET completed == {k \in 1..Len(subtasks) :
                                subtasks[k].status = "completed"}
            IN /\ approval[1].status \in {"approved", "rejected"}
               /\ approval[1].status = "approved"
                    <=> Cardinality(completed) = Len(subtasks)
               /\ approval[1].completed_subtasks = Cardinality(completed)
               /\ approval[1].total_subtasks = Len(subtasks)
    /\ (run_code = 0 /\ ~dry_run)
         => /\ subtasks # <<>>
            /\ \A k \in 1..Len(subtasks) : subtasks[k].status = "completed"
            /\ emitted # <<>>
            /\ emitted[1].approval # <<>>
            /\ emitted[1].approval[1].status = "approved"
            /\ emitted[1].subtasks = subtasks

\* A run of three subtasks that returned 0 with an approval, one subtask
\* having needed a retry.
C24_Witness ==
    /\ run_code = 0
    /\ ~dry_run
    /\ Len(subtasks) = 3
    /\ Len(invocations) > 3
    /\ emitted # <<>>
    /\ emitted[1].approval # <<>>
    /\ emitted[1].approval[1].status = "approved"

\* C25: in dry-run mode run starts no dev_agent.py process, leaves every
\* subtask pending and generates no approval; once it has returned for a
\* story that has a plan (a story without one is the error of C26), it has
\* returned 0 and printed the parsed plan, flagged dry_run, without a status
\* and without an approval entry.
C25_DryRun ==
    dry_run
      => /\ invocations = <<>>
         /\ dev_agent_result = <<>>
         /\ approval = <<>>
         /\ \A k \in 1..Len(subtasks) : subtasks[k].status = "pending"
         /\ (sup_pc = "returned" /\ subtasks # <<>>)
              => /\ run_code = 0
                 /\ emitted = <<[story |-> strip(story),
                                 subtasks |-> subtasks,
                                 dry_run |-> TRUE,
                                 status |-> "none",
                                 approval |-> <<>>]>>
         /\ emitted # <<>> => sup_pc = "returned" /\ subtasks # <<>>

\* A dry run that printed a plan of three pending subtasks.
C25_Witness ==
    /\ dry_run
    /\ sup_pc = "returned"
    /\ run_code = 0
    /\ emitted # <<>>
    /\ Len(emitted[1].subtasks) = 3
    /\ emitted[1].subtasks[3].description = <<"R", "u", "n", ".">>

\* A text in which no sentence can be found: nothing but whitespace and
\* full stops (the empty and the whitespace-only text included).
NoSentence(text) ==
    \A i \in 1..Len(text) : IsSpace(text[i]) \/ text[i] = "."

\* C26: for a story that is empty, whitespace-only or without any sentence,
\* run starts no dev_agent.py process, prints no plan and returns a non-zero
\* code; and whenever a process was started, the subtask list is non-empty,
\* every description in it is non-empty, and so is the story handed to each
\* process.
C26_EmptyPlanIsError ==
    /\ NoSentence(story)
         => /\ invocations = <<>>
            /\ emitted = <<>>
            /\ subtasks = <<>>
            /\ sup_pc = "returned" => run_code > 0
    /\ invocations # <<>>
         => /\ subtasks # <<>>
            /\ \A k \in 1..Len(subtasks) : subtasks[k].description # <<>>
            /\ \A n \in Invoked : invocations[n].story # <<>>

\* run has returned 1 for a story of blanks and full stops.
C26_Witness ==
    /\ story = StoryDots
    /\ \E i \in 1..Len(story) : ~IsSpace(story[i])
    /\ sup_pc = "returned"
    /\ run_code = 1
    /\ invocations = <<>>

\* The test command of the dev-agent process of the last attempt timed out or
\* was not found.
TestCommandFailedToRun ==
    /\ dev_agent_result # <<>>
    /\ dev_agent_result[1].test_command \in
         {"TimeoutExpired", "FileNotFoundError"}

\* C28: when the test command of an attempt timed out or was not found, the
\* dev-agent process neither exits with code 0 nor reports 'No test failures
\* detected', and the attempt does not complete its subtask.
C28_TimeoutNeverSuccess ==
    TestCommandFailedToRun
      => /\ dev_agent_result[1].returncode # 0
         /\ ~Contains(dev_agent_result[1].stderr, NO_TEST_FAILURES)
         /\ ~invocations[Len(invocations)].completed
         /\ subtasks[invocations[Len(invocations)].subtask_num].status
              # "completed"

\* Backend call i returned a candidate that parses once applied to the
\* original source.
ValidCandidate(i) ==
    ~llm_calls[i].outcome.raises /\ llm_calls[i].outcome.parses

\* C30: with a readable source file, no backend call follows a call whose
\* candidate passed the syntax check; and a PatchResult that is returned
\* carries the diff of the last call made, which passed the check and is the
\* only call that did, hence the first in call order.
C30_FirstValidCandidate ==
    Readable =>
        /\ \A i \in DOMAIN llm_calls :
             ValidCandidate(i) => /\ i = Len(llm_calls)
                                  /\ Generated
                                  /\ patch.kind = "PatchResult"
        /\ (Generated /\ patch.kind = "PatchResult") =>
             /\ llm_calls # <<>>
             /\ ValidCandidate(Len(llm_calls))
             /\ patch.diff_content = llm_calls[Len(llm_calls)].outcome.diff
             /\ \A i \in 1..(Len(llm_calls) - 1) : ~ValidCandidate(i)
             /\ \A i \in DOMAIN llm_calls : llm_calls[i].attempt = i - 1

\* The third call returned the first valid candidate, after a call that
\* raised and a candidate that did not parse.
C30_Witness ==
    /\ Readable
    /\ Generated
    /\ patch.kind = "PatchResult"
    /\ Len(llm_calls) = 3
    /\ llm_calls[1].outcome.raises
    /\ ~llm_calls[2].outcome.raises
    /\ ~llm_calls[2].outcome.parses
    /\ ValidCandidate(3)

\* The identifier a failure record was parsed from.
NodeId(f) == f.file_path \o COLONS \o f.test_name

\* C29: the error_output of the record of a FAILED marker with identifier X
\* starts with a marker line of X and holds the marker line of no other
\* identifier, also when X is a prefix of that identifier.
C29_ExcerptIsolation ==
    (Parsed /\ Markers # <<>>) =>
        \A i \in DOMAIN test_result[1].failures :
            LET f == test_result[1].failures[i]
                excerpt == splitlines(f.error_output)
            IN /\ excerpt # <<>>
               /\ IsMarker(excerpt[1])
               /\ \A k \in DOMAIN excerpt :
                    IsMarker(excerpt[k]) => Identifier(excerpt[k]) = NodeId(f)

\* The files under repo_path: the sources and the byte-code files.
WorkingTree ==
    {repo_files[i].path : i \in DOMAIN repo_files} \cup bytecode

\* C27: during and after a call of run_tests the files under the working
\* directory are the ones that were there when it was called; the syntax
\* pre-check creates none.
C27_WorkingTreeUnchanged ==
    rt_pc # "idle"
      => WorkingTree = {repo_files[i].path : i \in DOMAIN repo_files}

\* Backend call i returned a candidate that failed the syntax check.
InvalidCandidate(i) ==
    ~llm_calls[i].outcome.raises /\ ~llm_calls[i].outcome.parses

\* C31: the prompt of every retry that follows a candidate which failed the
\* syntax check is made of the original failure prompt, the fixed 'previous
\* patch had syntax errors' instruction and, after them, the text of that
\* candidate's diff.
C31_RetryPromptContent ==
    \A i \in 2..Len(llm_calls) :
        (llm_calls[i].attempt >= 1 /\ InvalidCandidate(i - 1)) =>
            LET pieces == llm_calls[i].error_output
            IN /\ Len(pieces) >= 2
               /\ pieces[1] = <<FIX_TEST_FAILURE, test_failure.error_output>>
               /\ pieces[2] = RETRY_HINT
               /\ \E k \in 3..Len(pieces) :
                    pieces[k] = llm_calls[i - 1].outcome.diff

\* C32: the branch created in 0-based iteration i is the sanitized
\* '<prefix>_<test_name>' for i = 0 and that name followed by '_' and i + 1
\* for i > 0, and the branches created in the iterations of one invocation
\* are pairwise distinct, whatever tests the test runs report.
C32_BranchSuffixDistinct ==
    Named =>
        /\ LET base == _sanitize_branch_name(
                           naming.branch_prefix \o <<"_">> \o naming.test_name)
               last == created_branch[Len(created_branch)]
           IN IF naming.iteration = 0
              THEN last = base
              ELSE last = base \o <<"_">> \o IntToStr(naming.iteration + 1)
        /\ \A i, j \in DOMAIN created_branch :
             i # j => created_branch[i] # created_branch[j]

\* The operations that leave the current branch and what is applied and
\* committed on it in place.
KeepsBranchState ==
    {"run_tests", "generate_patch", "create_branch", "validate_patch",
     "apply_patch", "commit", "push", "open_pr", "save_metrics"}

\* Call n is the create_branch of an iteration after the first.
StackedBranch(n) == log[n].op = "create_branch" /\ log[n].iter > 0

\* C33: main calls nothing that reverts, resets or checks out the base
\* branch; between a failing retest and the create_branch of the next
\* iteration it only runs the tests and generates a patch; so when the
\* branch of iteration i + 1 is created, the branch of every iteration
\* 0..i was created, and its patch applied and committed, earlier on the same
\* line of history.
C33_RetriesStack ==
    /\ \A n \in DOMAIN log : log[n].op \in KeepsBranchState
    /\ \A n \in DOMAIN log :
         StackedBranch(n) =>
            /\ n > 3
            /\ IsRetest(log[n - 3]) /\ ~log[n - 3].res.passed
            /\ log[n - 3].iter = log[n].iter - 1
            /\ IsStartRun(log[n - 2])
            /\ log[n - 1].op = "generate_patch"
            /\ \A j \in 0..(log[n].iter - 1) :
                 \E b, a, c \in 1..(n - 1) :
                    /\ b < a /\ a < c
                    /\ log[b].op = "create_branch" /\ log[b].res = "True"
                    /\ log[a].op = "apply_patch" /\ log[a].res = "True"
                    /\ log[c].op = "commit"
                    /\ log[b].iter = j /\ log[a].iter = j /\ log[c].iter = j

\* The branch of the third iteration was created after two committed fixes
\* whose retests failed.
C33_Witness ==
    \E n \in DOMAIN log :
        /\ StackedBranch(n)
        /\ log[n].iter = 2
        /\ log[n].res = "True"
        /\ \A c \in 1..n : log[c].op = "commit" => log[c].res = "True"

\* main has just saved the record of this invocation.
JustRecorded ==
    /\ log # <<>>
    /\ log[Len(log)].op = "save_metrics"
    /\ metrics # <<>>

\* C34: the duration_ms of the record main appends, on CONVERGED and on
\* EXHAUSTED alike, is the time from the start of the invocation to the
\* moment of recording.
C34_DurationWholeCall ==
    JustRecorded => metrics[Len(metrics)].duration_ms = now - start_time

\* --------------------------------------------------------------- C35
\* The message at position i of sent comes from role r.
SentBy(i, r) == i \in 1..Len(sent) /\ sent[i].role = r

\* The review at position i approves its patch.
Approved(i) == SentBy(i, "Supervisor") /\ sent[i].approved = "True"

\* C35: in run_autogen_loop every patch of the DevAgent is followed by the
\* review of the Supervisor for the same iteration, every review follows
\* such a patch, and a status of the GitTool is sent exactly after the
\* reviews whose approved is true: an approved review is followed by the
\* status (or the loop is about to apply the patch), a review that does not
\* approve is followed by the next patch or by nothing.
C35_ReviewGatesApplication ==
    \A i \in 1..Len(sent) :
        /\ SentBy(i, "DevAgent") =>
              IF i < Len(sent)
              THEN /\ SentBy(i + 1, "Supervisor")
                   /\ sent[i + 1].iteration = sent[i].iteration
              ELSE autogen.pc = "review"
        /\ SentBy(i, "Supervisor") =>
              /\ SentBy(i - 1, "DevAgent")
              /\ IF Approved(i)
                 THEN IF i < Len(sent) THEN SentBy(i + 1, "GitTool")
                                       ELSE autogen.pc = "apply"
                 ELSE IF i < Len(sent) THEN SentBy(i + 1, "DevAgent")
                                       ELSE autogen.pc \in {"tests", "patch",
                                                           "returned"}
        /\ SentBy(i, "GitTool") => Approved(i - 1)

\* A call that returned after a rejected patch and, in a later iteration,
\* an approved patch that was applied.
C35_Witness ==
    /\ autogen.pc = "returned"
    /\ \E i, j \in 1..Len(sent) :
         /\ i < j
         /\ SentBy(i, "Supervisor") /\ sent[i].approved = "False"
         /\ SentBy(j, "GitTool")

\* --------------------------------------------------------------- C36
\* Some commit of this invocation succeeded.
Committed == \E i \in Calls("commit") : log[i].res = "True"

\* C36 as stated - No success exit with unpushed fixes: whenever main has
\* exited with code 0 after a commit was made during the invocation, push
\* was called after the last commit and a success record was saved.
C36_NoUnpushedSuccess ==
    (Done /\ exit_code = 0 /\ Committed) =>
        /\ \E p \in Calls("push") : \A c \in Calls("commit") : c < p
        /\ \E s \in Calls("save_metrics") :
             /\ log[s].line = 414
             /\ metrics # <<>>
             /\ metrics[Len(metrics)].success

\* --------------------------------------------------------------- C37
\* The commit of iteration it reported success.
CommitSucceeded(it) ==
    \E c \in Calls("commit") : log[c].iter = it /\ log[c].res = "True"

\* C37 as stated - Push follows a successful commit: push is called in an
\* iteration only if the commit of that iteration succeeded, and a fix whose
\* commit reported failure is not recorded as a success.
C37_PushAfterCommit ==
    /\ \A p \in Calls("push") : CommitSucceeded(log[p].iter)
    /\ \A s \in Calls("save_metrics") :
         log[s].line = 414 => CommitSucceeded(log[s].iter)

\* --------------------------------------------------------------- C38
\* C38 as stated - Sequencer retries can make progress: the branch a new
\* attempt at a subtask creates in its first iteration differs from every
\* branch an earlier attempt created for the same failing test, so that
\* create_branch, which fails on an existing name, can succeed.
C38_RetryBranchFresh ==
    (Named /\ naming.attempt > 0) =>
        \A k \in 1..(Len(created_branch) - 1) :
            naming.fixed[k] = naming.test_name =>
                created_branch[k] # created_branch[Len(created_branch)]

\* --------------------------------------------------------------- C39
\* The subtasks dev-agent was started for and that were never completed.
ExhaustedSubtasks ==
    {n \in 1..Len(subtasks) :
        /\ \E k \in DOMAIN invocations : invocations[k].subtask_num = n
        /\ subtasks[n].status # "completed"}

\* C39 as stated - Rejection count is exact: when run has generated a
\* rejection because a subtask exhausted its retries, the failed count the
\* message names is the number of subtasks that were attempted and
\* exhausted their retries; subtasks never attempted are not counted.
C39_RejectionCountExact ==
    (approval # <<>> /\ approval[1].status = "rejected") =>
        approval[1].failed_count = Cardinality(ExhaustedSubtasks)

\* --------------------------------------------------------------- C40
\* main has left with exit code 0, 1 or 2 or through an escaping error.
TerminalOutcome == Done /\ (exit_code \in {0, 1, 2} \/ escaped # "none")

\* C40 - Termination: when every external call returns, every invocation of
\* main eventually reaches a terminal outcome (exit code 0, 1 or 2, or an
\* escaping error); it starts at most max_iterations iterations and makes
\* at most 2 * max_iterations test runs, and takes no step after the
\* terminal outcome.
C40_Termination ==
    /\ <>TerminalOutcome
    /\ [](/\ iteration <= max_iterations
          /\ IterationsUsed <= max_iterations
          /\ Count("run_tests") <= 2 * max_iterations)
    /\ [][~Done]_mainVars

\* An invocation that used all of its iterations and test runs: every
\* retest failed and main left with exit code 1.
C40_Witness ==
    /\ TerminalOutcome
    /\ exit_code = 1
    /\ max_iterations = MaxIterations
    /\ IterationsUsed = max_iterations
    /\ Count("run_tests") = 2 * max_iterations

====
